---- MODULE Spec2Model ----
(***************************************************************************)
(* A model of the Laravel HTTP client of src/src/index.ts: the instance    *)
(* fields (baseUrl, cookies, csrfToken, bearerToken, tokenResolver), the   *)
(* setters, and request / get / sendRequest as asynchronous calls that     *)
(* suspend at the token resolver, at fetch and at the response body read.  *)
(*                                                                         *)
(* A JavaScript string is a sequence of one-character strings, so that     *)
(* split, startsWith, join, decodeURIComponent and template literals are   *)
(* computed as the code computes them.  null and undefined are the         *)
(* one-element sequences Null and Undefined, whose element is no           *)
(* character.                                                              *)
(***************************************************************************)
EXTENDS Integers, Sequences, FiniteSets, TLC

Null == <<"null">>
Undefined == <<"undefined">>
\* a header, or a field of a call, that has no value
Absent == <<"absent">>
\* the outcome of an expression that throws
URIError == <<"URIError">>
Throws == <<"throws">>

\* JavaScript truthiness of a value of type string | null | undefined
Falsy(v) == v \in {Null, Undefined, <<>>}

(***************************************************************************)
(* String primitives of the JavaScript runtime                             *)
(***************************************************************************)

\* String.prototype.startsWith
StartsWith(s, prefix) ==
    /\ Len(s) >= Len(prefix)
    /\ SubSeq(s, 1, Len(prefix)) = prefix

\* String.prototype.indexOf, 1-based; 0 when sub does not occur in s
IndexOf(s, sub) ==
    LET hits == {i \in 1..(Len(s) - Len(sub) + 1) : SubSeq(s, i, i + Len(sub) - 1) = sub}
    IN IF hits = {} THEN 0 ELSE CHOOSE i \in hits : \A j \in hits : i <= j

\* String.prototype.includes
Includes(s, sub) == IndexOf(s, sub) > 0

\* String.prototype.split with a non-empty separator
RECURSIVE Split(_, _)
Split(s, sep) ==
    LET i == IndexOf(s, sep)
    IN IF i = 0
       THEN <<s>>
       ELSE <<SubSeq(s, 1, i - 1)>> \o Split(SubSeq(s, i + Len(sep), Len(s)), sep)

\* Array.prototype.join
RECURSIVE Join(_, _)
Join(parts, sep) ==
    IF parts = <<>> THEN <<>>
    ELSE IF Len(parts) = 1 THEN parts[1]
    ELSE parts[1] \o sep \o Join(Tail(parts), sep)

HexDigits == <<"0","1","2","3","4","5","6","7","8","9","A","B","C","D","E","F">>
HexLower == <<"0","1","2","3","4","5","6","7","8","9","a","b","c","d","e","f">>
IsHex(c) == \E i \in 1..16 : HexDigits[i] = c \/ HexLower[i] = c
HexVal(c) == (CHOOSE i \in 1..16 : HexDigits[i] = c \/ HexLower[i] = c) - 1

\* the characters U+0020 .. U+007E; the double quote, the backslash, the grave
\* accent and any other code point n are written ToString(<<n>>)
Printable == <<" ","!","<<34>>","#","$","%","&","'","(",")","*","+",",","-",".","/","0","1","2","3","4","5","6","7","8","9",":",";","<","=",">","?","@","A","B","C","D","E","F","G","H","I","J","K","L","M","N","O","P","Q","R","S","T","U","V","W","X","Y","Z","[","<<92>>","]","^","_","<<96>>","a","b","c","d","e","f","g","h","i","j","k","l","m","n","o","p","q","r","s","t","u","v","w","x","y","z","{","|","}","~">>
FromCodePoint(n) == IF n >= 32 /\ n <= 126 THEN Printable[n - 31] ELSE ToString(<<n>>)

\* the octet written %XY at position k of s, or -1 when no escape stands there
OctetAt(s, k) ==
    IF k + 2 <= Len(s) /\ s[k] = "%" /\ IsHex(s[k + 1]) /\ IsHex(s[k + 2])
    THEN 16 * HexVal(s[k + 1]) + HexVal(s[k + 2])
    ELSE -1

\* the number of octets of the UTF-8 sequence a lead octet opens, 0 for no lead
Utf8Length(b) ==
    IF b < 128 THEN 1
    ELSE IF b >= 194 /\ b <= 223 THEN 2
    ELSE IF b >= 224 /\ b <= 239 THEN 3
    ELSE IF b >= 240 /\ b <= 244 THEN 4
    ELSE 0

\* the bounds of the second octet of a well-formed UTF-8 sequence
Utf8SecondLow(b) == IF b = 224 THEN 160 ELSE IF b = 240 THEN 144 ELSE 128
Utf8SecondHigh(b) == IF b = 237 THEN 159 ELSE IF b = 244 THEN 143 ELSE 191

\* the escapes at k, k+3, ... are a well-formed UTF-8 sequence of n octets
Utf8WellFormed(s, k, n) ==
    /\ n >= 1
    /\ \A j \in 1..(n - 1) :
          LET o == OctetAt(s, k + 3 * j)
          IN IF j = 1
             THEN o >= Utf8SecondLow(OctetAt(s, k)) /\ o <= Utf8SecondHigh(OctetAt(s, k))
             ELSE o >= 128 /\ o <= 191

Utf8CodePoint(s, k, n) ==
    LET b == OctetAt(s, k)
        c(j) == OctetAt(s, k + 3 * j) % 64
    IN IF n = 1 THEN b
       ELSE IF n = 2 THEN (b % 32) * 64 + c(1)
       ELSE IF n = 3 THEN (b % 16) * 4096 + c(1) * 64 + c(2)
       ELSE (b % 8) * 262144 + c(1) * 4096 + c(2) * 64 + c(3)

\* decodeURIComponent from position k on: URIError on a malformed escape
RECURSIVE DecodeFrom(_, _)
DecodeFrom(s, k) ==
    IF k > Len(s) THEN <<>>
    ELSE IF s[k] # "%"
    THEN LET rest == DecodeFrom(s, k + 1)
         IN IF rest = URIError THEN URIError ELSE <<s[k]>> \o rest
    ELSE LET b == OctetAt(s, k)
             n == IF b < 0 THEN 0 ELSE Utf8Length(b)
         IN IF n = 0 \/ ~Utf8WellFormed(s, k, n)
            THEN URIError
            ELSE LET rest == DecodeFrom(s, k + 3 * n)
                 IN IF rest = URIError THEN URIError
                    ELSE <<FromCodePoint(Utf8CodePoint(s, k, n))>> \o rest

\* decodeURIComponent
DecodeURIComponent(s) == DecodeFrom(s, 1)

\* the template literal that builds the Authorization value: "Bearer " and the token
BearerPrefix == <<"B","e","a","r","e","r"," ">>
Bearer(token) == BearerPrefix \o token

(***************************************************************************)
(* Values exchanged with the caller and with the transport                 *)
(***************************************************************************)

\* "XSRF-TOKEN="
XsrfPrefix == <<"X","S","R","F","-","T","O","K","E","N","=">>
\* "application/json"
AppJson == <<"a","p","p","l","i","c","a","t","i","o","n","/","j","s","o","n">>
\* "text/plain"
TextPlain == <<"t","e","x","t","/","p","l","a","i","n">>
\* the function installed by setTokenResolver
ResolverFn == <<"function">>
\* the error a failing transport rejects with
FetchFailed == <<"TypeError: fetch failed">>
\* the error a failing token resolver throws or rejects with
ResolverFailed == <<"Error: resolver failed">>

\* a Headers object: header names are case-insensitive and kept lower-cased
HeaderNames == {"accept", "origin", "cookie", "x-xsrf-token", "authorization",
                "content-type", "x-custom"}
NoHeaders == [n \in HeaderNames |-> Absent]
\* Headers.prototype.set
HeadersSet(h, name, value) == [h EXCEPT ![name] = value]

\* a request body: its JavaScript type, its characters (string) or its opaque
\* payload (FormData, Blob, ArrayBuffer), and its own properties (object)
UndefinedBody == [kind |-> "undefined", text |-> <<>>, entries |-> <<>>]
NullBody == [kind |-> "null", text |-> <<>>, entries |-> <<>>]
StringBody(s) == [kind |-> "string", text |-> s, entries |-> <<>>]

\* a RequestInit: "absent" is a property the object does not have
NoInit == [method |-> "absent", headers |-> NoHeaders, body |-> UndefinedBody,
           credentials |-> "absent"]

\* a Response of the transport: status line, the content-type header (Null when
\* the response has none), every Set-Cookie value in response order, and what
\* its body readers json() and text() yield (Throws when the reader rejects)
NoResponse == [status |-> -1, statusText |-> <<>>, contentType |-> Null,
               setCookie |-> <<>>, json |-> Absent, text |-> Absent]

\* a LaravelResponse (src/src/index.ts:1-9)
ResponseHeaderNames == {"content-type", "set-cookie"}
NoEnvelope == [data |-> Absent, status |-> -1, statusText |-> <<>>,
               headers |-> [n \in ResponseHeaderNames |-> Absent],
               config |-> NoInit, request |-> NoResponse, success |-> FALSE]

(***************************************************************************)
(* State                                                                   *)
(***************************************************************************)

VARIABLES
    constructed,    \* new Laravel(url) has returned an instance
    ctorArg,        \* the argument of the last new Laravel(url), Absent before it
    ctorThrew,      \* the last new Laravel(url) threw
    baseUrl,        \* this.baseUrl
    cookies,        \* this.cookies
    csrfToken,      \* this.csrfToken
    bearerToken,    \* this.bearerToken
    tokenResolver,  \* this.tokenResolver
    window,         \* typeof window !== "undefined"
    documentCookie, \* document.cookie, read when window is defined
    publicDomain,   \* process.env.NEXT_PUBLIC_DOMAIN
    calls,          \* the calls of request, get and sendRequest in progress
    stored,         \* observer: the last write of a cookie string into this.cookies
    returned,       \* observer: the synchronous method call the caller made last
                    \* and its result, until the caller makes an asynchronous call
    tokenUse,       \* observer: what has become of the last token given to withToken
    dropped         \* observer: a written cookie string has been reset before any
                    \* request attached it

fields == <<baseUrl, cookies, csrfToken, bearerToken, tokenResolver>>
environment == <<window, documentCookie, publicDomain>>
observers == <<stored, returned, tokenUse, dropped>>
vars == <<constructed, ctorArg, ctorThrew, fields, environment, calls, observers>>

\* the callers that may hold a call in progress
Procs == {1, 2}

\* a call that is not in progress
\* the fields of the instance a call found when it began
\* no token has been given to withToken; otherwise phase is "set" once withToken
\* has stored the token, "sent" once a request has begun with it, "cleared" once
\* withToken has then cleared it
NoTokenUse == [phase |-> "unset", token |-> Absent]

NoSnapshot == [cookies |-> Absent, csrfToken |-> Absent, bearerToken |-> Absent,
               tokenResolver |-> Absent, documentCookie |-> Absent,
               tokenUse |-> NoTokenUse]

\* observer: no written cookie string awaits its first request
NothingDue == [by |-> "none", value |-> <<>>]

\* a call: where it stands (pc), the method the caller called (via), the verb
\* helper that serves it (op) with its endpoint, params and body arguments, the
\* path and the init request received, the Headers object under construction, the config given to
\* fetch, the response, the envelope or the error it settled with; and for the
\* observer the fields it found (atCall), the cookie string written before it
\* and not yet attached (due), how often it has called the token resolver
\* (invoked) and what the resolver produced (resolved), how often it has called
\* fetch (fetches) and how the transport settled (transport)
IdleCall == [pc |-> "idle", via |-> "none", op |-> "none", endpoint |-> Absent,
             params |-> UndefinedBody, body |-> UndefinedBody,
             path |-> Absent, init |-> NoInit,
             atCall |-> NoSnapshot, due |-> NothingDue, headers |-> NoHeaders,
             invoked |-> 0, resolved |-> Absent, config |-> NoInit, fetches |-> 0,
             transport |-> "none",
             response |-> NoResponse, envelope |-> NoEnvelope, error |-> Absent]

\* observer: nothing is written, or by |-> "setter" / "capture" wrote value, and
\* attached requests have carried it since (counted up to 2)
NothingStored == [by |-> "none", value |-> <<>>, attached |-> 0]
Written(by, value) == [by |-> by, value |-> value, attached |-> 0]

\* observer: the instance, as the value a method returns
This == <<"this">>
\* observer: no synchronous method has been called, or method(arg) gave value
\* and found before in the field it writes
NothingReturned == [method |-> "none", arg |-> Absent, before |-> Absent, value |-> Absent]
Returned(method, arg, before, value) ==
    [method |-> method, arg |-> arg, before |-> before, value |-> value]

MutatingOps == {"post", "put", "patch", "delete"}

(***************************************************************************)
(* Helpers of the class                                                    *)
(***************************************************************************)

\* Laravel.extractCsrfToken: the rows of the cookie string, the first row that
\* starts with "XSRF-TOKEN=", and the decoded second piece of that row split
\* at "="; URIError when decodeURIComponent throws
extractCsrfToken(cookiesString) ==
    LET rows == Split(cookiesString, <<";", " ">>)
        hits == {i \in 1..Len(rows) : StartsWith(rows[i], XsrfPrefix)}
    IN IF hits = {} THEN Null
       ELSE LET match == rows[CHOOSE i \in hits : \A j \in hits : i <= j]
            IN DecodeURIComponent(Split(match, <<"=">>)[2])

\* Laravel.headersToRecord: Headers.forEach visits every Set-Cookie value under
\* the one key "set-cookie", so the record keeps the last of them
headersToRecord(response) ==
    [n \in ResponseHeaderNames |->
        IF n = "content-type"
        THEN IF response.contentType = Null THEN Absent ELSE response.contentType
        ELSE IF response.setCookie = <<>> THEN Absent
             ELSE response.setCookie[Len(response.setCookie)]]

\* mutation of ResponseData: a failing body reader is not caught
ResponseData_Uncaught(response) ==
    LET contentType == response.contentType
    IN IF ~Falsy(contentType) /\ Includes(contentType, AppJson)
       THEN response.json
       ELSE response.text

\* createLaravelResponse, the try block: the body read by json() or by text(),
\* null when the reader throws
ResponseData(response) ==
    LET contentType == response.contentType
        read == IF ~Falsy(contentType) /\ Includes(contentType, AppJson)
                THEN response.json
                ELSE response.text
    IN IF read = Throws THEN Null ELSE read

\* createLaravelResponse, the success flag
HttpOkLow == 200
HttpOkHigh == 300
\* mutation of Success: the upper limit is counted in
Success_Inclusive(status) == status >= HttpOkLow /\ status <= HttpOkHigh
Success(status) == status >= HttpOkLow /\ status < HttpOkHigh

\* Laravel.createLaravelResponse
createLaravelResponse(response, config) ==
    [data |-> ResponseData(response),
     status |-> response.status,
     statusText |-> response.statusText,
     headers |-> headersToRecord(response),
     config |-> config,
     request |-> response,
     success |-> Success(response.status)]

(***************************************************************************)
(* Laravel.request, between its suspension points                          *)
(***************************************************************************)

\* new Headers(init.headers || {}) with Accept and Origin forced
InitialHeaders(init, domain) ==
    HeadersSet(HeadersSet(init.headers, "accept", AppJson),
               "origin", IF Falsy(domain) THEN <<>> ELSE domain)

\* this.cookies after the adoption of document.cookie
AdoptedCookies(current, hasWindow, ambient) ==
    IF hasWindow /\ current \in {Null, Undefined} THEN ambient ELSE current

\* extractCsrfToken(this.cookies) is called and throws
ExtractThrows(cookieString) ==
    ~Falsy(cookieString) /\ extractCsrfToken(cookieString) = URIError

\* the cookie header and the X-XSRF-TOKEN header taken from this.cookies
CookieHeaders(h, cookieString) ==
    IF Falsy(cookieString) THEN h
    ELSE LET csrf == extractCsrfToken(cookieString)
             withCookie == HeadersSet(h, "cookie", cookieString)
         IN IF Falsy(csrf) THEN withCookie
            ELSE HeadersSet(withCookie, "x-xsrf-token", csrf)

\* the explicit CSRF token overwrites X-XSRF-TOKEN
CsrfHeaders(h, token) ==
    IF Falsy(token) THEN h ELSE HeadersSet(h, "x-xsrf-token", token)

\* mutation of UsesResolver: an installed resolver is invoked whatever bearerToken holds
UsesResolver_IgnoringBearer(resolver, bearer) == resolver # Undefined

\* the condition under which the token resolver is invoked
UsesResolver(resolver, bearer) == resolver # Undefined /\ Falsy(bearer)

\* mutation of ResolvedHeaders: the resolved value is used without the test of it
ResolvedHeaders_Unchecked(h, resolvedToken) ==
    IF resolvedToken = ResolverFailed THEN h
    ELSE HeadersSet(h, "authorization", Bearer(resolvedToken))

\* the Authorization header from the value the resolver produced
ResolvedHeaders(h, resolvedToken) ==
    IF resolvedToken = ResolverFailed \/ Falsy(resolvedToken) THEN h
    ELSE HeadersSet(h, "authorization", Bearer(resolvedToken))

\* the Authorization header from this.bearerToken, when no resolver is invoked
BearerHeaders(h, bearer) ==
    IF Falsy(bearer) THEN h ELSE HeadersSet(h, "authorization", Bearer(bearer))

\* mutation of RequestConfig: the init is spread after credentials, so that the
\* caller's credentials mode wins
RequestConfig_CallerWins(init, h) ==
    [init EXCEPT !.credentials = IF @ = "absent" THEN "include" ELSE @, !.headers = h]

\* the config passed to fetch
RequestConfig(init, h) == [init EXCEPT !.credentials = "include", !.headers = h]

(***************************************************************************)
(* Laravel.sendRequest: the body and its content type                      *)
(***************************************************************************)

DoubleQuote == FromCodePoint(34)
Backslash == FromCodePoint(92)
Digits == <<"0","1","2","3","4","5","6","7","8","9">>

\* String(n) of a natural number
RECURSIVE NatToString(_)
NatToString(n) ==
    IF n < 10 THEN <<Digits[n + 1]>>
    ELSE NatToString(n \div 10) \o <<Digits[(n % 10) + 1]>>

\* JSON.stringify of a string: quoted, the quote and the backslash escaped
RECURSIVE JsonEscape(_)
JsonEscape(s) ==
    IF s = <<>> THEN <<>>
    ELSE (IF Head(s) \in {DoubleQuote, Backslash}
          THEN <<Backslash, Head(s)>>
          ELSE <<Head(s)>>) \o JsonEscape(Tail(s))
JsonString(s) == <<DoubleQuote>> \o JsonEscape(s) \o <<DoubleQuote>>

\* a property "key":value; the value is a string, or a number when str is Absent
JsonMember(e) ==
    JsonString(e.key) \o <<":">> \o
    (IF e.str = Absent THEN NatToString(e.num) ELSE JsonString(e.str))

RECURSIVE JsonMembers(_)
JsonMembers(entries) ==
    IF entries = <<>> THEN <<>>
    ELSE IF Len(entries) = 1 THEN JsonMember(entries[1])
    ELSE JsonMember(entries[1]) \o <<",">> \o JsonMembers(Tail(entries))

\* JSON.stringify of an object whose own properties hold strings and numbers
JSONStringify(entries) == <<"{">> \o JsonMembers(entries) \o <<"}">>

\* typeof body === "object", for a body that is not null
PrimitiveKinds == {"undefined", "string", "number", "boolean"}
TypeofObject(body) == body.kind \notin PrimitiveKinds

\* mutation of ProcessedBody: the typeof test comes before the instanceof tests
ProcessedBody_ObjectFirst(body) ==
    IF body.kind \in {"undefined", "null"} THEN NullBody
    ELSE IF body.kind = "string" THEN body
    ELSE IF TypeofObject(body) THEN StringBody(JSONStringify(body.entries))
    ELSE NullBody

\* processedBody of sendRequest
ProcessedBody(body) ==
    IF body.kind \in {"undefined", "null"} THEN NullBody
    ELSE IF body.kind = "FormData" THEN body
    ELSE IF body.kind = "string" THEN body
    ELSE IF body.kind \in {"Blob", "ArrayBuffer"} THEN body
    ELSE IF TypeofObject(body) THEN StringBody(JSONStringify(body.entries))
    ELSE NullBody

\* headers of sendRequest
BodyHeaders(body) ==
    IF body.kind \in {"undefined", "null"} THEN NoHeaders
    ELSE IF body.kind = "FormData" THEN NoHeaders
    ELSE IF body.kind = "string" THEN HeadersSet(NoHeaders, "content-type", TextPlain)
    ELSE IF body.kind \in {"Blob", "ArrayBuffer"} THEN NoHeaders
    ELSE IF TypeofObject(body) THEN HeadersSet(NoHeaders, "content-type", AppJson)
    ELSE NoHeaders

\* the HTTP method of a verb helper
VerbMethod(op) ==
    IF op = "get" THEN "GET"
    ELSE IF op = "post" THEN "POST"
    ELSE IF op = "put" THEN "PUT"
    ELSE IF op = "patch" THEN "PATCH"
    ELSE "DELETE"

\* requestOptions of sendRequest
SendRequestOptions(op, body) ==
    [method |-> VerbMethod(op), headers |-> BodyHeaders(body),
     body |-> ProcessedBody(body), credentials |-> "absent"]

\* requestOptions of get
GetRequestOptions == [NoInit EXCEPT !.method = "GET"]

\* mutation of CapturedCookies: the values are joined in the reverse of response order
RECURSIVE Reverse(_)
Reverse(s) == IF s = <<>> THEN <<>> ELSE Reverse(Tail(s)) \o <<Head(s)>>
CapturedCookies_Reversed(current, response) ==
    IF Len(response.setCookie) > 0
    THEN Join(Reverse(response.setCookie), <<";", " ">>)
    ELSE current

\* this.cookies after sendRequest has read getSetCookie() of the response
CapturedCookies(current, response) ==
    IF Len(response.setCookie) > 0
    THEN Join(response.setCookie, <<";", " ">>)
    ELSE current

(***************************************************************************)
(* new URL(input, base), url.searchParams.append and url.toString(), for   *)
(* inputs the URL parser leaves as they are: no dot segments, no control   *)
(* characters, spaces or backslashes, a lower-case host, no default port   *)
(***************************************************************************)

\* the outcome of new URL for an input that is no URL: it throws a TypeError
InvalidURL == [origin |-> <<>>, path |-> <<>>, query |-> Null]

\* the first position of s that holds one of the characters, Len(s) + 1 if none
FirstOf(s, characters) ==
    LET hits == {k \in 1..Len(s) : s[k] \in characters}
    IN IF hits = {} THEN Len(s) + 1 ELSE CHOOSE k \in hits : \A j \in hits : k <= j

\* s up to its fragment
WithoutFragment(s) == SubSeq(s, 1, FirstOf(s, {"#"}) - 1)

\* the path of a path-and-query string
PathOf(s) == SubSeq(s, 1, FirstOf(s, {"?"}) - 1)

\* the query of a path-and-query string: null when it has no "?"
QueryOf(s) ==
    LET q == FirstOf(s, {"?"})
    IN IF q > Len(s) THEN Null ELSE SubSeq(s, q + 1, Len(s))

\* "://"
SchemeSeparator == <<":", "/", "/">>

\* an absolute URL string parsed into origin, path and query
ParseAbsolute(s) ==
    LET i == IndexOf(s, SchemeSeparator)
        rest == WithoutFragment(SubSeq(s, i + 3, Len(s)))
        hostEnd == FirstOf(rest, {"/", "?"})
        tail == SubSeq(rest, hostEnd, Len(rest))
    IN IF i <= 1 \/ hostEnd = 1 THEN InvalidURL
       ELSE [origin |-> SubSeq(s, 1, i + 2) \o SubSeq(rest, 1, hostEnd - 1),
             path |-> IF PathOf(tail) = <<>> THEN <<"/">> ELSE PathOf(tail),
             query |-> QueryOf(tail)]

\* a path up to and with its last "/"
Directory(path) ==
    LET slashes == {k \in 1..Len(path) : path[k] = "/"}
    IN IF slashes = {} THEN <<"/">>
       ELSE SubSeq(path, 1, CHOOSE k \in slashes : \A j \in slashes : j <= k)

\* new URL(input, base)
NewURL(input, base) ==
    LET b == ParseAbsolute(base)
        r == WithoutFragment(input)
    IN IF b = InvalidURL THEN InvalidURL
       ELSE IF Includes(input, SchemeSeparator) THEN ParseAbsolute(input)
       ELSE IF r = <<>> THEN b
       ELSE IF StartsWith(r, <<"/", "/">>)
       THEN ParseAbsolute(SubSeq(b.origin, 1, IndexOf(b.origin, SchemeSeparator)) \o r)
       ELSE IF r[1] = "/" THEN [origin |-> b.origin, path |-> PathOf(r), query |-> QueryOf(r)]
       ELSE IF r[1] = "?" THEN [origin |-> b.origin, path |-> b.path, query |-> QueryOf(r)]
       ELSE [origin |-> b.origin, path |-> Directory(b.path) \o PathOf(r),
             query |-> QueryOf(r)]

\* URL.prototype.toString
URLToString(u) ==
    u.origin \o u.path \o (IF u.query = Null THEN <<>> ELSE <<"?">> \o u.query)

\* the code point of an ASCII character
CodePointOf(c) == 31 + (CHOOSE i \in 1..Len(Printable) : Printable[i] = c)

\* the application/x-www-form-urlencoded byte serializer, for ASCII text
FormUnreserved(n) ==
    \/ n \in 48..57 \/ n \in 65..90 \/ n \in 97..122
    \/ n \in {42, 45, 46, 95}
RECURSIVE FormEncode(_)
FormEncode(s) ==
    IF s = <<>> THEN <<>>
    ELSE LET n == CodePointOf(Head(s))
         IN (IF n = 32 THEN <<"+">>
             ELSE IF FormUnreserved(n) THEN <<Head(s)>>
             ELSE <<"%", HexDigits[(n \div 16) + 1], HexDigits[(n % 16) + 1]>>)
            \o FormEncode(Tail(s))

\* the application/x-www-form-urlencoded decoder, for ASCII text: "+" is a
\* space, %XY an octet, and a "%" that opens no escape stands for itself
RECURSIVE FormDecode(_)
FormDecode(s) ==
    IF s = <<>> THEN <<>>
    ELSE IF Head(s) = "+" THEN <<" ">> \o FormDecode(Tail(s))
    ELSE IF OctetAt(s, 1) >= 0
    THEN <<FromCodePoint(OctetAt(s, 1))>> \o FormDecode(SubSeq(s, 4, Len(s)))
    ELSE <<Head(s)>> \o FormDecode(Tail(s))

\* one name=value pair of a query, decoded and serialized again
FormPair(pair) ==
    LET e == FirstOf(pair, {"="})
    IN FormEncode(FormDecode(SubSeq(pair, 1, e - 1))) \o <<"=">> \o
       FormEncode(FormDecode(SubSeq(pair, e + 1, Len(pair))))

\* the query of a URL whose searchParams have been changed: every pair it had,
\* serialized again
RECURSIVE FormPairs(_)
FormPairs(pairs) ==
    IF pairs = <<>> THEN <<>>
    ELSE IF Head(pairs) = <<>> THEN FormPairs(Tail(pairs))
    ELSE <<FormPair(Head(pairs))>> \o FormPairs(Tail(pairs))

\* url.searchParams.append(name, value) for each of the pairs in turn: the
\* query is the pairs the URL had and the new ones, all serialized
SearchParamsAppend(u, pairs) ==
    LET had == IF u.query = Null THEN <<>> ELSE FormPairs(Split(u.query, <<"&">>))
        new == [i \in 1..Len(pairs) |->
                   FormEncode(pairs[i].name) \o <<"=">> \o FormEncode(pairs[i].value)]
    IN IF pairs = <<>> THEN u ELSE [u EXCEPT !.query = Join(had \o new, <<"&">>)]

\* the error a call rejects with when new URL throws
TypeErrorInvalidURL == <<"TypeError: Invalid URL">>

\* the options of get: params is absent, an object, or (as the README writes
\* it) a string
NoParams == UndefinedBody
NoOptions == [params |-> NoParams]

\* options?.params is truthy
HasParams(options) ==
    /\ options.params.kind \notin {"undefined", "null"}
    /\ ~(options.params.kind = "string" /\ options.params.text = <<>>)

\* Object.keys(params) with params[key]: the own properties of an object; of a
\* string, its indices "0", "1", ... with the character at each
OwnProperties(value) ==
    IF value.kind = "string"
    THEN [i \in 1..Len(value.text) |->
             [key |-> NatToString(i - 1), str |-> <<value.text[i]>>, num |-> 0]]
    ELSE value.entries

\* String(v) of a property value that is a string or a number
StringOf(e) == IF e.str = Absent THEN NatToString(e.num) ELSE e.str

\* the forEach of get: one searchParams.append(key, String(params[key])) per key
AppendParams(u, properties) ==
    SearchParamsAppend(u, [i \in 1..Len(properties) |->
                              [name |-> properties[i].key,
                               value |-> StringOf(properties[i])]])

\* url of get
GetUrl(endpoint, options, base) ==
    LET url == NewURL(endpoint, base)
    IN IF url = InvalidURL THEN InvalidURL
       ELSE IF HasParams(options) THEN AppendParams(url, OwnProperties(options.params))
       ELSE url

(***************************************************************************)
(* Operations                                                              *)
(***************************************************************************)

\* no call is in progress
Quiet == \A p \in Procs : calls[p].pc = "idle"

\* mutation of UrlMissing: only an absent argument is refused
UrlMissing_OnlyUndefined(url) == url = Undefined

\* the constructor's test of its argument
UrlMissing(url) == Falsy(url)

\* constructor
New(url) ==
    /\ ~constructed
    /\ ctorArg' = url
    /\ IF UrlMissing(url)
       THEN /\ ctorThrew' = TRUE
            /\ UNCHANGED <<constructed, baseUrl, cookies, csrfToken, bearerToken>>
       ELSE /\ ctorThrew' = FALSE
            /\ constructed' = TRUE
            /\ baseUrl' = url
            /\ cookies' = Null
            /\ csrfToken' = Null
            /\ bearerToken' = Null
    /\ returned' = Returned("constructor", url, Absent,
                            IF UrlMissing(url) THEN Throws ELSE This)
    /\ UNCHANGED <<tokenResolver, environment, calls, stored, tokenUse, dropped>>

setTokenResolver(resolver) ==
    /\ constructed
    /\ tokenResolver' = resolver
    /\ returned' = Returned("setTokenResolver", resolver, tokenResolver, This)
    /\ UNCHANGED <<constructed, ctorArg, ctorThrew, baseUrl, cookies, csrfToken,
                   bearerToken, environment, calls, stored, tokenUse, dropped>>

\* mutation of CookiesAfterSet: an absent or null argument leaves the field as it is
CookiesAfterSet_KeptOnNull(current, value) == IF ~Falsy(value) THEN value ELSE current

\* this.cookies after withCookies(value)
CookiesAfterSet(current, value) == IF ~Falsy(value) THEN value ELSE Null

withCookies(value) ==
    /\ constructed
    /\ cookies' = CookiesAfterSet(cookies, value)
    /\ stored' = IF Falsy(value) THEN NothingStored ELSE Written("setter", value)
    /\ returned' = Returned("withCookies", value, cookies, This)
    /\ UNCHANGED <<constructed, ctorArg, ctorThrew, baseUrl, csrfToken, bearerToken,
                   tokenResolver, environment, calls, tokenUse, dropped>>

\* mutation of withCSRFToken: the setter also resets the cookie string
withCSRFToken_ResetsCookies(token) ==
    /\ constructed
    /\ csrfToken' = token
    /\ cookies' = Null
    /\ returned' = Returned("withCSRFToken", token, csrfToken, This)
    /\ UNCHANGED <<constructed, ctorArg, ctorThrew, baseUrl, bearerToken,
                   tokenResolver, environment, calls, stored, tokenUse, dropped>>

withCSRFToken(token) ==
    /\ constructed
    /\ csrfToken' = token
    /\ returned' = Returned("withCSRFToken", token, csrfToken, This)
    /\ UNCHANGED <<constructed, ctorArg, ctorThrew, baseUrl, cookies, bearerToken,
                   tokenResolver, environment, calls, stored, tokenUse, dropped>>

\* mutation of TokenAfterSet: an absent or null argument leaves the field as it is
TokenAfterSet_KeptOnNull(current, token) == IF Falsy(token) THEN current ELSE token

\* this.bearerToken after withToken(token)
TokenAfterSet(current, token) == IF Falsy(token) THEN Null ELSE token

withToken(token) ==
    /\ constructed
    /\ bearerToken' = TokenAfterSet(bearerToken, token)
    /\ returned' = Returned("withToken", token, bearerToken, This)
    /\ tokenUse' = IF ~Falsy(token) THEN [phase |-> "set", token |-> token]
                   ELSE IF tokenUse.phase = "sent" THEN [tokenUse EXCEPT !.phase = "cleared"]
                   ELSE IF tokenUse.phase = "set" THEN NoTokenUse
                   ELSE tokenUse
    /\ UNCHANGED <<constructed, ctorArg, ctorThrew, baseUrl, cookies, csrfToken,
                   tokenResolver, environment, calls, stored, dropped>>

\* mutation of PathString: the parameter has no default value
PathString_NoDefault(path) ==
    IF path = Undefined THEN <<"u", "n", "d", "e", "f", "i", "n", "e", "d">>
    ELSE IF path = Null THEN <<"n", "u", "l", "l">>
    ELSE path

\* String(path) of getUri, whose parameter defaults to "" when it is undefined
PathString(path) ==
    IF path = Undefined THEN <<>>
    ELSE IF path = Null THEN <<"n", "u", "l", "l">>
    ELSE path

\* what getUri(path) returns; Throws when new URL throws
Uri(path, base) ==
    LET url == NewURL(PathString(path), base)
    IN IF url = InvalidURL THEN Throws ELSE URLToString(url)

getUri(path) ==
    /\ constructed
    /\ returned' = Returned("getUri", path, Absent, Uri(path, baseUrl))
    /\ UNCHANGED <<constructed, ctorArg, ctorThrew, fields, environment, calls, stored,
                   tokenUse, dropped>>

\* the call the caller makes: the method via, served by the verb helper op
Called(via, op, endpoint, params, body) ==
    [IdleCall EXCEPT !.via = via, !.op = op, !.endpoint = endpoint,
                     !.params = params, !.body = body]

\* fetch(path, config) has been called and the call awaits it
Dispatched(call, h) ==
    [call EXCEPT !.pc = "fetch", !.headers = h, !.config = RequestConfig(call.init, h),
                 !.fetches = @ + 1, !.transport = "pending"]

\* this.tokenResolver() has been called
Invoked(call) == [call EXCEPT !.invoked = @ + 1]

\* request(path, init) from its first line to its first suspension: the await
\* of the token resolver, or the await of fetch.  resolverThrows: the resolver
\* throws before it returns, which the try block catches without suspending.
requestBegin(p, called, path, init, resolverThrows) ==
    LET adopted == AdoptedCookies(cookies, window, documentCookie)
        h == CsrfHeaders(CookieHeaders(InitialHeaders(init, publicDomain), adopted),
                         csrfToken)
        carries == stored.by # "none" /\ h["cookie"] = stored.value
        began == [called EXCEPT !.path = path, !.init = init,
                     !.atCall = [cookies |-> cookies, csrfToken |-> csrfToken,
                                 bearerToken |-> bearerToken,
                                 tokenResolver |-> tokenResolver,
                                 documentCookie |-> documentCookie,
                                 tokenUse |-> tokenUse],
                     !.due = IF stored.attached = 0
                             THEN [by |-> stored.by, value |-> stored.value]
                             ELSE NothingDue]
    IN /\ constructed
       /\ calls[p].pc = "idle"
       /\ cookies' = adopted
       /\ IF ExtractThrows(adopted)
          THEN /\ calls' = [calls EXCEPT ![p] =
                    [began EXCEPT !.pc = "rejected", !.error = URIError]]
               /\ UNCHANGED <<stored, tokenUse>>
          ELSE /\ calls' = [calls EXCEPT ![p] =
                    IF UsesResolver(tokenResolver, bearerToken)
                    THEN IF resolverThrows
                         THEN Dispatched([Invoked(began) EXCEPT !.resolved = ResolverFailed], h)
                         ELSE [Invoked(began) EXCEPT !.pc = "resolver", !.headers = h]
                    ELSE Dispatched(began, BearerHeaders(h, bearerToken))]
               /\ stored' = IF carries /\ stored.attached < 2
                            THEN [stored EXCEPT !.attached = @ + 1]
                            ELSE stored
               /\ tokenUse' = IF ~Falsy(bearerToken) /\ tokenUse.phase = "set"
                              THEN [tokenUse EXCEPT !.phase = "sent"]
                              ELSE tokenUse
       /\ returned' = NothingReturned
       /\ UNCHANGED <<constructed, ctorArg, ctorThrew, baseUrl, csrfToken, bearerToken,
                      tokenResolver, environment, dropped>>

\* a direct call of request(path, init)
request(p, path, init, resolverThrows) ==
    requestBegin(p, Called("request", "request", Absent, UndefinedBody, UndefinedBody),
                 path, init, resolverThrows)

\* new URL(endpoint, this.baseUrl) throws in get or sendRequest: the call
\* rejects before it reads or writes any field
urlThrows(p, called) ==
    /\ constructed
    /\ calls[p].pc = "idle"
    /\ calls' = [calls EXCEPT ![p] =
            [called EXCEPT !.pc = "rejected", !.error = TypeErrorInvalidURL]]
    /\ returned' = NothingReturned
    /\ UNCHANGED <<constructed, ctorArg, ctorThrew, fields, environment, stored,
                   tokenUse, dropped>>

\* get(endpoint, options), called by the caller or by the method via
get(p, via, endpoint, options, resolverThrows) ==
    \E url \in {GetUrl(endpoint, options, baseUrl)} :
        IF url = InvalidURL
        THEN urlThrows(p, Called(via, "get", endpoint, options.params, UndefinedBody))
        ELSE \E path \in {URLToString(url)} :
                requestBegin(p, Called(via, "get", endpoint, options.params,
                                       UndefinedBody),
                             path, GetRequestOptions, resolverThrows)

\* sendRequest(endpoint, method, body), called by post, put, patch or delete
sendRequest(p, via, op, endpoint, body, resolverThrows) ==
    \E url \in {NewURL(endpoint, baseUrl)} :
        /\ op \in MutatingOps
        /\ IF url = InvalidURL
           THEN urlThrows(p, Called(via, op, endpoint, UndefinedBody, body))
           ELSE \E path \in {URLToString(url)},
                   requestOptions \in {SendRequestOptions(op, body)} :
                   requestBegin(p, Called(via, op, endpoint, UndefinedBody, body),
                                path, requestOptions, resolverThrows)

\* post(endpoint, body) and put(endpoint, body)
post(p, via, endpoint, body, resolverThrows) ==
    sendRequest(p, via, "post", endpoint, body, resolverThrows)
put(p, via, endpoint, body, resolverThrows) ==
    sendRequest(p, via, "put", endpoint, body, resolverThrows)

\* an object literal: its properties in source order, each holding a string
StringProperty(key, value) == [key |-> key, str |-> value, num |-> 0]
ObjectOf(properties) == [kind |-> "object", text |-> <<>>, entries |-> properties]

\* the path each convenience method gives to get, post or put; of verifyEmail,
\* what comes before the user id
EndpointPath ==
    [csrf |->
        <<"/","s","a","n","c","t","u","m","/","c","s","r","f","-","c","o","o","k","i","e">>,
     login |->
        <<"/","a","p","i","/","l","o","g","i","n">>,
     register |->
        <<"/","a","p","i","/","r","e","g","i","s","t","e","r">>,
     sendVerificationNotification |->
        <<"/","a","p","i","/","e","m","a","i","l","/","v","e","r","i","f","i","c","a","t","i","o","n","-","n","o","t","i","f","i","c","a","t","i","o","n">>,
     verifyEmail |->
        <<"/","a","p","i","/","v","e","r","i","f","y","-","e","m","a","i","l","/">>,
     forgotPassword |->
        <<"/","a","p","i","/","f","o","r","g","o","t","-","p","a","s","s","w","o","r","d">>,
     resetPassword |->
        <<"/","a","p","i","/","r","e","s","e","t","-","p","a","s","s","w","o","r","d">>,
     updatePassword |->
        <<"/","a","p","i","/","u","s","e","r","/","u","p","d","a","t","e","-","p","a","s","s","w","o","r","d">>,
     updateAccount |->
        <<"/","a","p","i","/","u","s","e","r">>]
\* the property names "email" and "password"
EmailKey == <<"e","m","a","i","l">>
PasswordKey == <<"p","a","s","s","w","o","r","d">>

\* csrf()
csrf(p, resolverThrows) == get(p, "csrf", EndpointPath.csrf, NoOptions, resolverThrows)

\* mutation of LoginBody: the two arguments change places
LoginBody_Swapped(email, password) ==
    ObjectOf(<<StringProperty(EmailKey, password), StringProperty(PasswordKey, email)>>)

\* the object login posts
LoginBody(email, password) ==
    ObjectOf(<<StringProperty(EmailKey, email), StringProperty(PasswordKey, password)>>)

\* the object sendVerificationNotification and forgotPassword post
EmailBody(email) == ObjectOf(<<StringProperty(EmailKey, email)>>)

\* the template literal of verifyEmail
VerifyEmailPath(userId, hash) == EndpointPath.verifyEmail \o userId \o <<"/">> \o hash

login(p, email, password, resolverThrows) ==
    post(p, "login", EndpointPath.login, LoginBody(email, password), resolverThrows)

register(p, data, resolverThrows) ==
    post(p, "register", EndpointPath.register, data, resolverThrows)

sendVerificationNotification(p, email, resolverThrows) ==
    post(p, "sendVerificationNotification", EndpointPath.sendVerificationNotification,
         EmailBody(email), resolverThrows)

verifyEmail(p, userId, hash, query, resolverThrows) ==
    get(p, "verifyEmail", VerifyEmailPath(userId, hash), [params |-> query],
        resolverThrows)

forgotPassword(p, email, resolverThrows) ==
    post(p, "forgotPassword", EndpointPath.forgotPassword, EmailBody(email), resolverThrows)

resetPassword(p, data, resolverThrows) ==
    post(p, "resetPassword", EndpointPath.resetPassword, data, resolverThrows)

updatePassword(p, data, resolverThrows) ==
    put(p, "updatePassword", EndpointPath.updatePassword, data, resolverThrows)

updateAccount(p, data, resolverThrows) ==
    put(p, "updateAccount", EndpointPath.updateAccount, data, resolverThrows)

\* mutation of resolverSettles: the cookie, CSRF and bearer fields are read
\* after the await of the resolver instead of before it
resolverSettles_ReadsAfterAwait(p, result) ==
    /\ calls[p].pc = "resolver"
    /\ calls' = [calls EXCEPT ![p] =
            Dispatched([calls[p] EXCEPT !.resolved = result],
                       BearerHeaders(
                           ResolvedHeaders(
                               CsrfHeaders(CookieHeaders(calls[p].headers, cookies),
                                           csrfToken),
                               result),
                           bearerToken))]
    /\ UNCHANGED <<constructed, ctorArg, ctorThrew, fields, environment, observers>>

\* mutation of resolverSettles: a resolver that produced no token is called
\* once more
resolverSettles_Retries(p, result) ==
    /\ calls[p].pc = "resolver"
    /\ calls' = [calls EXCEPT ![p] =
            IF Falsy(result) /\ calls[p].invoked < 2
            THEN Invoked(calls[p])
            ELSE Dispatched([calls[p] EXCEPT !.resolved = result],
                            ResolvedHeaders(calls[p].headers, result))]
    /\ UNCHANGED <<constructed, ctorArg, ctorThrew, fields, environment, observers>>

\* the awaited token resolver settles: with a token, with null, or rejected
resolverSettles(p, result) ==
    /\ calls[p].pc = "resolver"
    /\ calls' = [calls EXCEPT ![p] =
            Dispatched([calls[p] EXCEPT !.resolved = result],
                       ResolvedHeaders(calls[p].headers, result))]
    /\ UNCHANGED <<constructed, ctorArg, ctorThrew, fields, environment, observers>>

\* request after fetch has resolved: createLaravelResponse awaits the body
OnFetchResolved(call, response) ==
    [call EXCEPT !.pc = "body", !.response = response]

\* mutation of CookiesAfterFetch: the reset spares a string that is held
CookiesAfterFetch_Kept(current) == current

\* this.cookies after fetch has resolved
CookiesAfterFetch(current) == Null

\* mutation of fetchResolves: the reset after fetch takes csrfToken with it
fetchResolves_ResetsCsrf(p, response) ==
    /\ calls[p].pc = "fetch"
    /\ cookies' = CookiesAfterFetch(cookies)
    /\ csrfToken' = Null
    /\ calls' = [calls EXCEPT ![p] =
            OnFetchResolved([calls[p] EXCEPT !.transport = "responded"], response)]
    /\ dropped' = (dropped \/ (/\ stored.by # "none"
                                /\ stored.attached = 0
                                /\ cookies = stored.value
                                /\ cookies' # stored.value))
    /\ UNCHANGED <<constructed, ctorArg, ctorThrew, baseUrl, bearerToken,
                   tokenResolver, environment, stored, returned, tokenUse>>

\* fetch resolves with a response
fetchResolves(p, response) ==
    /\ calls[p].pc = "fetch"
    /\ cookies' = CookiesAfterFetch(cookies)
    /\ calls' = [calls EXCEPT ![p] =
            OnFetchResolved([calls[p] EXCEPT !.transport = "responded"], response)]
    /\ dropped' = (dropped \/ (/\ stored.by # "none"
                                /\ stored.attached = 0
                                /\ cookies = stored.value
                                /\ cookies' # stored.value))
    /\ UNCHANGED <<constructed, ctorArg, ctorThrew, baseUrl, csrfToken, bearerToken,
                   tokenResolver, environment, stored, returned, tokenUse>>

\* mutation of OnFetchRejected: the error is caught and an envelope without data returned
OnFetchRejected_Caught(call) ==
    [call EXCEPT !.pc = "resolved", !.envelope = [NoEnvelope EXCEPT !.data = Null]]

\* request after fetch has rejected: nothing catches the error, so request and
\* the verb helper that awaits it reject with it
OnFetchRejected(call) ==
    [call EXCEPT !.pc = "rejected", !.error = FetchFailed]

\* this.cookies after fetch has rejected: the reset is not reached
CookiesAfterFailure(current) == current

\* fetch rejects
fetchRejects(p) ==
    /\ calls[p].pc = "fetch"
    /\ cookies' = CookiesAfterFailure(cookies)
    /\ calls' = [calls EXCEPT ![p] =
            OnFetchRejected([calls[p] EXCEPT !.transport = "failed"])]
    /\ UNCHANGED <<constructed, ctorArg, ctorThrew, baseUrl, csrfToken, bearerToken,
                   tokenResolver, environment, observers>>

\* mutation of bodySettles: get captures the Set-Cookie headers as sendRequest does
bodySettles_AlwaysCaptures(p) ==
    /\ calls[p].pc = "body"
    /\ calls' = [calls EXCEPT ![p] =
            [calls[p] EXCEPT
                !.pc = "capture",
                !.envelope = createLaravelResponse(calls[p].response, calls[p].config)]]
    /\ UNCHANGED <<constructed, ctorArg, ctorThrew, fields, environment, observers>>

\* the body reader settles and request resolves with the envelope; a mutating
\* verb resumes in sendRequest
bodySettles(p) ==
    /\ calls[p].pc = "body"
    /\ calls' = [calls EXCEPT ![p] =
            [calls[p] EXCEPT
                !.pc = IF calls[p].op \in MutatingOps THEN "capture" ELSE "resolved",
                !.envelope = createLaravelResponse(calls[p].response, calls[p].config)]]
    /\ UNCHANGED <<constructed, ctorArg, ctorThrew, fields, environment, observers>>

\* observer: the Set-Cookie values of a response joined with "; " in response order
SetCookieJoined(response) == Join(response.setCookie, <<";", " ">>)

\* sendRequest after its await of request: the Set-Cookie capture
sendRequestResumes(p) ==
    /\ calls[p].pc = "capture"
    /\ cookies' = CapturedCookies(cookies, calls[p].envelope.request)
    /\ stored' = IF calls[p].response.setCookie = <<>> THEN stored
                 ELSE Written("capture", SetCookieJoined(calls[p].response))
    /\ calls' = [calls EXCEPT ![p] = [calls[p] EXCEPT !.pc = "resolved"]]
    /\ UNCHANGED <<constructed, ctorArg, ctorThrew, baseUrl, csrfToken, bearerToken,
                   tokenResolver, environment, returned, tokenUse, dropped>>

\* the environment: the page's cookie store changes (a script or a response of
\* another client writes document.cookie)
documentCookieChanges(value) ==
    /\ window
    /\ documentCookie # value
    /\ documentCookie' = value
    /\ UNCHANGED <<constructed, ctorArg, ctorThrew, fields, window, publicDomain, calls,
                   observers>>

\* the caller takes the envelope or the error of a settled call
callerContinues(p) ==
    /\ calls[p].pc \in {"resolved", "rejected"}
    /\ calls' = [calls EXCEPT ![p] = IdleCall]
    /\ UNCHANGED <<constructed, ctorArg, ctorThrew, fields, environment, observers>>

(***************************************************************************)
(* validation_messages: replaceAttribute, replacePlaceholders and the      *)
(* formatters required and min.string, for field names without "$"         *)
(***************************************************************************)

LowerLetters == <<"a","b","c","d","e","f","g","h","i","j","k","l","m","n","o","p","q","r","s","t","u","v","w","x","y","z">>
UpperLetters == <<"A","B","C","D","E","F","G","H","I","J","K","L","M","N","O","P","Q","R","S","T","U","V","W","X","Y","Z">>

\* String.prototype.toUpperCase and toLowerCase, of one character and of a string
UpperChar(c) ==
    IF \E i \in 1..Len(LowerLetters) : LowerLetters[i] = c
    THEN UpperLetters[CHOOSE i \in 1..Len(LowerLetters) : LowerLetters[i] = c]
    ELSE c
LowerChar(c) ==
    IF \E i \in 1..Len(UpperLetters) : UpperLetters[i] = c
    THEN LowerLetters[CHOOSE i \in 1..Len(UpperLetters) : UpperLetters[i] = c]
    ELSE c
ToLowerCase(s) == [i \in 1..Len(s) |-> LowerChar(s[i])]

\* template.replace(new RegExp(pattern, "g"), replacement): every occurrence
\* from left to right, what has been replaced is not searched again
RECURSIVE ReplaceAll(_, _, _)
ReplaceAll(template, pattern, replacement) ==
    IF template = <<>> THEN <<>>
    ELSE IF StartsWith(template, pattern)
         THEN replacement \o ReplaceAll(SubSeq(template, Len(pattern) + 1, Len(template)),
                                        pattern, replacement)
    ELSE <<Head(template)>> \o ReplaceAll(Tail(template), pattern, replacement)

\* fieldName.charAt(0).toUpperCase() + fieldName.slice(1)
Capitalized(fieldName) ==
    IF fieldName = <<>> THEN <<>>
    ELSE <<UpperChar(Head(fieldName))>> \o Tail(fieldName)

\* replaceAttribute(template, field)
replaceAttribute(template, field) ==
    LET fieldName == IF Falsy(field) THEN <<"v","e","l","d">> ELSE field
        withCapitalized == ReplaceAll(template, <<":","A","t","t","r","i","b","u","t","e">>, Capitalized(fieldName))
    IN ReplaceAll(withCapitalized, <<":","a","t","t","r","i","b","u","t","e">>, ToLowerCase(fieldName))

\* replacePlaceholders(template, {min: value})
replacePlaceholders(template, key, value) ==
    ReplaceAll(template, <<":">> \o key, NatToString(value))

\* a number argument that is not given
NoNumber == -1

\* min || 1
MinOrDefault(min) == IF min = NoNumber \/ min = 0 THEN 1 ELSE min

\* validation_messages.required(field)
RequiredMessage(field) ==
    replaceAttribute(<<":","A","t","t","r","i","b","u","t","e"," ","i","s"," ","v","e","r","p","l","i","c","h","t",".">>, field)

\* validation_messages.min.string(field, min)
MinStringMessage(field, min) ==
    replacePlaceholders(
        replaceAttribute(<<":","A","t","t","r","i","b","u","t","e"," ","m","o","e","t"," ","m","i","n","i","m","a","a","l"," ",":","m","i","n"," ","t","e","k","e","n","s"," ","z","i","j","n",".">>, field),
        <<"m","i","n">>, MinOrDefault(min))

\* a call of validation_messages.required(field)
required(field) ==
    /\ returned' = Returned("required", field, Absent, RequiredMessage(field))
    /\ UNCHANGED <<constructed, ctorArg, ctorThrew, fields, environment, calls, stored,
                   tokenUse, dropped>>

\* a call of validation_messages.min.string(field, min)
min_string(field, min) ==
    /\ returned' = Returned("min.string", [field |-> field, min |-> min], Absent,
                            MinStringMessage(field, min))
    /\ UNCHANGED <<constructed, ctorArg, ctorThrew, fields, environment, calls, stored,
                   tokenUse, dropped>>

(***************************************************************************)
(* Inputs                                                                  *)
(***************************************************************************)

\* the most Set-Cookie headers a response carries
MaxSetCookie == 2

\* every sequence over S of length at most n
SeqsUpTo(S, n) == UNION {[1..k -> S] : k \in 0..n}

\* "https://h/"
BaseUrl == <<"h","t","t","p","s",":","/","/","h","/">>
\* "https://app"
AppDomain == <<"h","t","t","p","s",":","/","/","a","p","p">>
\* "s=1"
SessionCookie == <<"s","=","1">>
\* "s=1; XSRF-TOKEN=abc%20def"
SessionXsrfCookie == <<"s","=","1",";"," ","X","S","R","F","-","T","O","K","E","N","=","a","b","c","%","2","0","d","e","f">>
\* "XSRF-TOKEN=YQ==", a value that ends with base64 padding
PaddedXsrfCookie == <<"X","S","R","F","-","T","O","K","E","N","=","Y","Q","=","=">>
\* "d=1"
AmbientCookie == <<"d","=","1">>
\* Set-Cookie values "a=1" and "b=2"
SetCookieA == <<"a","=","1">>
SetCookieB == <<"b","=","2">>
\* tokens "csrf", "t1" and "r1"
CsrfValue == <<"c","s","r","f">>
StaticToken == <<"t","1">>
ResolvedToken == <<"r","1">>
\* header values "Basic u" and "text/html"
BasicAuth == <<"B","a","s","i","c"," ","u">>
TextHtml == <<"t","e","x","t","/","h","t","m","l">>
\* what the body readers of a response yield
JsonData == <<"parsed JSON">>
TextData == <<"body text">>
\* the reason phrases "OK" and "" of a response
ReasonOK == <<"O","K">>
\* the endpoint "/api/x"
ApiX == <<"/","a","p","i","/","x">>

\* a RequestInit of a caller that sets headers and options of its own
CallerInit ==
    [method |-> "POST",
     headers |-> [NoHeaders EXCEPT !["authorization"] = BasicAuth,
                                   !["accept"] = TextHtml,
                                   !["x-custom"] = <<"1">>],
     body |-> StringBody(<<"x">>),
     credentials |-> "omit"]

\* the object {x: 1}
ObjectBody == [kind |-> "object", text |-> <<>>,
               entries |-> <<[key |-> <<"x">>, str |-> Absent, num |-> 1]>>]

\* "application/json; charset=utf-8"
AppJsonCharset == <<"a","p","p","l","i","c","a","t","i","o","n","/","j","s","o","n",";"," ","c","h","a","r","s","e","t","=","u","t","f","-","8">>

\* bodies of the other types sendRequest tells apart: a FormData, a Blob and an
\* ArrayBuffer with an opaque payload, the strings "x" and "", the number 5, the
\* typed array Uint8Array [1, 2], and the object {email: "a@b.com", password: "pw"}
FormDataBody == [kind |-> "FormData", text |-> <<"f","o","r","m">>, entries |-> <<>>]
BlobBody == [kind |-> "Blob", text |-> <<"b","l","o","b">>, entries |-> <<>>]
ArrayBufferBody == [kind |-> "ArrayBuffer", text |-> <<"b","u","f","f","e","r">>,
                    entries |-> <<>>]
NumberBody == [kind |-> "number", text |-> <<"5">>, entries |-> <<>>]
TypedArrayBody == [kind |-> "Uint8Array", text |-> <<>>,
                   entries |-> <<[key |-> <<"0">>, str |-> Absent, num |-> 1],
                                 [key |-> <<"1">>, str |-> Absent, num |-> 2]>>]
CredentialsBody ==
    [kind |-> "object", text |-> <<>>,
     entries |-> <<[key |-> <<"e","m","a","i","l">>,
                    str |-> <<"a","@","b",".","c","o","m">>, num |-> 0],
                   [key |-> <<"p","a","s","s","w","o","r","d">>,
                    str |-> <<"p","w">>, num |-> 0]>>]

\* the responses with the given status codes, content types, body reader
\* outcomes <<json, text>> and Set-Cookie lists
Responses(statuses, contentTypes, readers, setCookies) ==
    {[status |-> s, statusText |-> IF s = 200 THEN ReasonOK ELSE <<>>,
      contentType |-> ct, setCookie |-> sc, json |-> r[1], text |-> r[2]] :
        s \in statuses, ct \in contentTypes, r \in readers, sc \in setCookies}

\* the inputs of sequential use: the caller awaits each call before it does
\* anything else with the instance
SequentialUse ==
    [procs |-> {1},
     overlap |-> FALSE,
     urls |-> {Undefined, <<>>, BaseUrl},
     cookieArgs |-> {Undefined, Null, <<>>, SessionCookie, SessionXsrfCookie,
                     PaddedXsrfCookie},
     csrfArgs |-> {CsrfValue},
     tokenArgs |-> {Null, StaticToken},
     resolvers |-> {ResolverFn},
     resolverThrows |-> BOOLEAN,
     resolverResults |-> {ResolvedToken, Null, <<>>, ResolverFailed},
     endpoints |-> {ApiX},
     options |-> {NoOptions},
     inits |-> {NoInit, CallerInit},
     ops |-> {"post"},
     bodies |-> {ObjectBody},
     responses |-> Responses({200}, {AppJson}, {<<JsonData, TextData>>},
                             SeqsUpTo({SetCookieA, SetCookieB}, MaxSetCookie)),
     windows |-> BOOLEAN,
     ambients |-> {AmbientCookie},
     domains |-> {AppDomain}]

\* the inputs that vary the response: status codes on both sides of the limits
\* of the success range, responses with and without a JSON content type, and
\* body readers that yield or throw
EnvelopeUse ==
    [procs |-> {1},
     overlap |-> FALSE,
     urls |-> {BaseUrl},
     cookieArgs |-> {SessionCookie},
     csrfArgs |-> {CsrfValue},
     tokenArgs |-> {StaticToken},
     resolvers |-> {ResolverFn},
     resolverThrows |-> {FALSE},
     resolverResults |-> {ResolvedToken},
     endpoints |-> {ApiX},
     options |-> {NoOptions},
     inits |-> {NoInit},
     ops |-> {"post"},
     bodies |-> {ObjectBody},
     responses |-> Responses({199, 200, 204, 299, 300, 401, 403, 422, 500},
                             {Null, AppJsonCharset, TextHtml},
                             {<<JsonData, TextData>>, <<Throws, TextData>>,
                              <<Throws, Throws>>},
                             {<<>>, <<SetCookieA, SetCookieB>>}),
     windows |-> {FALSE},
     ambients |-> {AmbientCookie},
     domains |-> {AppDomain}]

\* the inputs that vary the body given to post, put, patch and delete
BodyUse ==
    [procs |-> {1},
     overlap |-> FALSE,
     urls |-> {BaseUrl},
     cookieArgs |-> {SessionCookie},
     csrfArgs |-> {CsrfValue},
     tokenArgs |-> {StaticToken},
     resolvers |-> {ResolverFn},
     resolverThrows |-> {FALSE},
     resolverResults |-> {ResolvedToken},
     endpoints |-> {ApiX},
     options |-> {NoOptions},
     inits |-> {NoInit},
     ops |-> MutatingOps,
     bodies |-> {UndefinedBody, NullBody, FormDataBody, StringBody(<<"x">>),
                 StringBody(<<>>), BlobBody, ArrayBufferBody, ObjectBody,
                 CredentialsBody, TypedArrayBody, NumberBody},
     responses |-> Responses({200}, {AppJson}, {<<JsonData, TextData>>}, {<<>>}),
     windows |-> {FALSE},
     ambients |-> {AmbientCookie},
     domains |-> {AppDomain}]

\* the inputs that vary the URL: base URLs with and without a path and one that
\* is no URL, absolute and relative endpoints, an endpoint with a query of its
\* own, params as an object, as a string and empty, and the arguments of the
\* convenience methods
BaseV1 == <<"h","t","t","p","s",":","/","/","h","/","a","p","i","/","v","1">>
NotAUrl == <<"h">>
ApiUsers == <<"/","a","p","i","/","u","s","e","r","s">>
RelativeEndpoint == <<"x">>
EndpointWithQuery == <<"/","u","?","q","=","1">>
\* {search: "keyword", page: 1}
SearchParams ==
    [kind |-> "object", text |-> <<>>,
     entries |-> <<[key |-> <<"s","e","a","r","c","h">>, str |-> <<"k","e","y","w","o","r","d">>, num |-> 0],
                   [key |-> <<"p","a","g","e">>, str |-> Absent, num |-> 1]>>]
\* "search=keyword&page=1"
RawQuery == <<"s","e","a","r","c","h","=","k","e","y","w","o","r","d","&","p","a","g","e","=","1">>
\* {}
EmptyObject == [kind |-> "object", text |-> <<>>, entries |-> <<>>]
\* {expires: "9", signature: "sig"}
SignedQuery ==
    ObjectOf(<<StringProperty(<<"e","x","p","i","r","e","s">>, <<"9">>),
               StringProperty(<<"s","i","g","n","a","t","u","r","e">>, <<"s","i","g">>)>>)
\* {name: "n", email: "a@b.com"}
AccountData ==
    ObjectOf(<<StringProperty(<<"n","a","m","e">>, <<"n">>),
               StringProperty(EmailKey, <<"a","@","b",".","c","o","m">>)>>)

EndpointUse ==
    [procs |-> {1},
     overlap |-> FALSE,
     urls |-> {BaseUrl, BaseV1, NotAUrl},
     cookieArgs |-> {SessionCookie},
     csrfArgs |-> {CsrfValue},
     tokenArgs |-> {StaticToken},
     resolvers |-> {ResolverFn},
     resolverThrows |-> {FALSE},
     resolverResults |-> {ResolvedToken},
     endpoints |-> {ApiUsers, RelativeEndpoint, EndpointWithQuery},
     options |-> {NoOptions, [params |-> SearchParams], [params |-> StringBody(RawQuery)],
                  [params |-> StringBody(<<>>)], [params |-> EmptyObject]},
     inits |-> {NoInit},
     ops |-> {"post"},
     bodies |-> {ObjectBody},
     responses |-> Responses({200}, {AppJson}, {<<JsonData, TextData>>},
                             {<<>>, <<SetCookieA>>}),
     windows |-> {FALSE},
     ambients |-> {AmbientCookie},
     domains |-> {AppDomain},
     paths |-> {Undefined, Null, <<>>, ApiX, RelativeEndpoint, EndpointWithQuery},
     emails |-> {<<"a","@","b",".","c","o","m">>},
     passwords |-> {<<"p","w">>},
     userIds |-> {<<"7">>},
     hashes |-> {<<"h","1">>},
     queries |-> {SignedQuery},
     data |-> {AccountData}]

(***************************************************************************)
(* Specifications                                                          *)
(***************************************************************************)

InitWith(D) ==
    /\ constructed = FALSE
    /\ ctorArg = Absent
    /\ ctorThrew = FALSE
    /\ baseUrl = Undefined
    /\ cookies = Undefined
    /\ csrfToken = Undefined
    /\ bearerToken = Undefined
    /\ tokenResolver = Undefined
    /\ window \in D.windows
    /\ documentCookie \in (IF window THEN D.ambients ELSE {<<>>})
    /\ publicDomain \in D.domains
    /\ calls = [p \in Procs |-> IdleCall]
    /\ stored = NothingStored
    /\ returned = NothingReturned
    /\ tokenUse = NoTokenUse
    /\ dropped = FALSE

\* a setter or a new call is allowed: always when calls may overlap, and
\* otherwise only while no call is in progress
Free(D) == D.overlap \/ Quiet

NextWith(D) ==
    \/ \E url \in D.urls : New(url)
    \/ \E resolver \in D.resolvers : Free(D) /\ setTokenResolver(resolver)
    \/ \E value \in D.cookieArgs : Free(D) /\ withCookies(value)
    \/ \E token \in D.csrfArgs : Free(D) /\ withCSRFToken(token)
    \/ \E token \in D.tokenArgs : Free(D) /\ withToken(token)
    \/ \E p \in D.procs, throws \in D.resolverThrows, path \in D.endpoints,
          init \in D.inits :
          Free(D) /\ request(p, path, init, throws)
    \/ \E p \in D.procs, throws \in D.resolverThrows, endpoint \in D.endpoints,
          options \in D.options :
          Free(D) /\ get(p, "get", endpoint, options, throws)
    \/ \E p \in D.procs, throws \in D.resolverThrows, op \in D.ops,
          endpoint \in D.endpoints, body \in D.bodies :
          Free(D) /\ sendRequest(p, op, op, endpoint, body, throws)
    \/ \E p \in D.procs, result \in D.resolverResults : resolverSettles(p, result)
    \/ \E p \in D.procs, response \in D.responses : fetchResolves(p, response)
    \/ \E p \in D.procs : fetchRejects(p)
    \/ \E p \in D.procs : bodySettles(p)
    \/ \E p \in D.procs : sendRequestResumes(p)
    \/ \E p \in D.procs : callerContinues(p)

Init == InitWith(SequentialUse)
Next == NextWith(SequentialUse)
Spec == Init /\ [][Next]_vars

InitEnvelope == InitWith(EnvelopeUse)
NextEnvelope == NextWith(EnvelopeUse)
SpecEnvelope == InitEnvelope /\ [][NextEnvelope]_vars

InitBody == InitWith(BodyUse)
NextBody == NextWith(BodyUse)
SpecBody == InitBody /\ [][NextBody]_vars

\* getUri and the convenience methods beside the setters and the verb helpers
ConvenienceWith(D) ==
    \/ \E path \in D.paths : Free(D) /\ getUri(path)
    \/ \E p \in D.procs, throws \in D.resolverThrows : Free(D) /\ csrf(p, throws)
    \/ \E p \in D.procs, throws \in D.resolverThrows, email \in D.emails,
          password \in D.passwords :
          Free(D) /\ login(p, email, password, throws)
    \/ \E p \in D.procs, throws \in D.resolverThrows, data \in D.data :
          Free(D) /\ register(p, data, throws)
    \/ \E p \in D.procs, throws \in D.resolverThrows, email \in D.emails :
          Free(D) /\ sendVerificationNotification(p, email, throws)
    \/ \E p \in D.procs, throws \in D.resolverThrows, userId \in D.userIds,
          hash \in D.hashes, query \in D.queries :
          Free(D) /\ verifyEmail(p, userId, hash, query, throws)
    \/ \E p \in D.procs, throws \in D.resolverThrows, email \in D.emails :
          Free(D) /\ forgotPassword(p, email, throws)
    \/ \E p \in D.procs, throws \in D.resolverThrows, data \in D.data :
          Free(D) /\ resetPassword(p, data, throws)
    \/ \E p \in D.procs, throws \in D.resolverThrows, data \in D.data :
          Free(D) /\ updatePassword(p, data, throws)
    \/ \E p \in D.procs, throws \in D.resolverThrows, data \in D.data :
          Free(D) /\ updateAccount(p, data, throws)

InitEndpoints == InitWith(EndpointUse)
NextEndpoints == NextWith(EndpointUse) \/ ConvenienceWith(EndpointUse)
SpecEndpoints == InitEndpoints /\ [][NextEndpoints]_vars

\* the inputs of overlapping use: two calls in progress at once on one
\* instance, and setters called while a call is suspended
OverlapUse ==
    [procs |-> {1, 2},
     overlap |-> TRUE,
     urls |-> {BaseUrl},
     cookieArgs |-> {SessionCookie},
     csrfArgs |-> {CsrfValue},
     tokenArgs |-> {StaticToken},
     resolvers |-> {ResolverFn},
     resolverThrows |-> {FALSE},
     resolverResults |-> {ResolvedToken},
     endpoints |-> {ApiX},
     options |-> {NoOptions},
     inits |-> {NoInit},
     ops |-> {"post"},
     bodies |-> {ObjectBody},
     responses |-> Responses({200}, {AppJson}, {<<JsonData, TextData>>},
                             {<<>>, <<SetCookieA>>}),
     windows |-> {FALSE},
     ambients |-> {AmbientCookie},
     domains |-> {AppDomain}]

\* two callers that share one instance, each of them storing cookies, calling
\* request and post and waiting for its own call only
InitOverlap == InitWith(OverlapUse)
NextOverlap ==
    \/ \E url \in OverlapUse.urls : New(url)
    \/ \E value \in OverlapUse.cookieArgs : withCookies(value)
    \/ \E p \in OverlapUse.procs, path \in OverlapUse.endpoints, init \in OverlapUse.inits :
          request(p, path, init, FALSE)
    \/ \E p \in OverlapUse.procs, op \in OverlapUse.ops, endpoint \in OverlapUse.endpoints,
          body \in OverlapUse.bodies :
          sendRequest(p, op, op, endpoint, body, FALSE)
    \/ \E p \in OverlapUse.procs, response \in OverlapUse.responses :
          fetchResolves(p, response)
    \/ \E p \in OverlapUse.procs : fetchRejects(p)
    \/ \E p \in OverlapUse.procs : bodySettles(p)
    \/ \E p \in OverlapUse.procs : sendRequestResumes(p)
    \/ \E p \in OverlapUse.procs : callerContinues(p)
SpecOverlap == InitOverlap /\ [][NextOverlap]_vars

\* the inputs of one call with setters called while it is suspended at the
\* token resolver or at fetch
InFlightUse ==
    [procs |-> {1},
     overlap |-> TRUE,
     urls |-> {BaseUrl},
     cookieArgs |-> {SessionCookie},
     csrfArgs |-> {CsrfValue},
     tokenArgs |-> {Null, StaticToken},
     resolvers |-> {ResolverFn},
     resolverThrows |-> {FALSE},
     resolverResults |-> {ResolvedToken},
     endpoints |-> {ApiX},
     options |-> {NoOptions},
     inits |-> {NoInit},
     ops |-> {"post"},
     bodies |-> {ObjectBody},
     responses |-> Responses({200}, {AppJson}, {<<JsonData, TextData>>},
                             {<<>>}),
     windows |-> {FALSE},
     ambients |-> {AmbientCookie},
     domains |-> {AppDomain}]

InitInFlight == InitWith(InFlightUse)
NextInFlight == NextWith(InFlightUse)
SpecInFlight == InitInFlight /\ [][NextInFlight]_vars

\* the inputs of use in a browser: a document cookie store that changes
\* between the calls
LaterAmbientCookie == <<"d","=","2">>
AmbientUse ==
    [procs |-> {1},
     overlap |-> FALSE,
     urls |-> {BaseUrl},
     cookieArgs |-> {Null, SessionCookie},
     csrfArgs |-> {CsrfValue},
     tokenArgs |-> {StaticToken},
     resolvers |-> {ResolverFn},
     resolverThrows |-> {FALSE},
     resolverResults |-> {ResolvedToken},
     endpoints |-> {ApiX},
     options |-> {NoOptions},
     inits |-> {NoInit},
     ops |-> {"post"},
     bodies |-> {ObjectBody},
     responses |-> Responses({200}, {AppJson}, {<<JsonData, TextData>>},
                             {<<>>, <<SetCookieA>>}),
     windows |-> {TRUE},
     ambients |-> {<<>>, AmbientCookie, LaterAmbientCookie},
     domains |-> {AppDomain}]

InitAmbient == InitWith(AmbientUse)
NextAmbient ==
    \/ NextWith(AmbientUse)
    \/ \E value \in AmbientUse.ambients : documentCookieChanges(value)
SpecAmbient == InitAmbient /\ [][NextAmbient]_vars

\* the inputs of a session with CSRF cookies: responses whose Set-Cookie
\* headers carry an XSRF-TOKEN cookie, percent-encoded or with a raw "="
EncodedXsrfSetCookie == <<"X","S","R","F","-","T","O","K","E","N","=","a","%","2","0","b">>
CsrfUse ==
    [procs |-> {1},
     overlap |-> FALSE,
     urls |-> {BaseUrl},
     cookieArgs |-> {SessionCookie},
     csrfArgs |-> {CsrfValue},
     tokenArgs |-> {StaticToken},
     resolvers |-> {ResolverFn},
     resolverThrows |-> {FALSE},
     resolverResults |-> {ResolvedToken},
     endpoints |-> {ApiX},
     options |-> {NoOptions},
     inits |-> {NoInit},
     ops |-> {"post"},
     bodies |-> {ObjectBody},
     responses |-> Responses({200}, {AppJson}, {<<JsonData, TextData>>},
                             {<<>>, <<SetCookieA, EncodedXsrfSetCookie>>,
                              <<PaddedXsrfCookie>>}),
     windows |-> {FALSE},
     ambients |-> {AmbientCookie},
     domains |-> {AppDomain}]

InitCsrf == InitWith(CsrfUse)
NextCsrf == NextWith(CsrfUse)
SpecCsrf == InitCsrf /\ [][NextCsrf]_vars

\* the inputs that vary what the caller puts in the init of request: no
\* headers, headers and options of its own, and headers under every name the
\* client writes; with and without NEXT_PUBLIC_DOMAIN
EvilOrigin == <<"h","t","t","p","s",":","/","/","e","v","i","l">>
FullInit ==
    [method |-> "PATCH",
     headers |-> [NoHeaders EXCEPT !["accept"] = TextHtml,
                                   !["origin"] = EvilOrigin,
                                   !["cookie"] = SetCookieB,
                                   !["x-xsrf-token"] = <<"x">>,
                                   !["authorization"] = BasicAuth,
                                   !["content-type"] = TextHtml,
                                   !["x-custom"] = <<"2">>],
     body |-> StringBody(<<"y">>),
     credentials |-> "same-origin"]
HeadersUse ==
    [procs |-> {1},
     overlap |-> FALSE,
     urls |-> {BaseUrl},
     cookieArgs |-> {Null, SessionXsrfCookie},
     csrfArgs |-> {CsrfValue},
     tokenArgs |-> {Null, StaticToken},
     resolvers |-> {ResolverFn},
     resolverThrows |-> {FALSE},
     resolverResults |-> {ResolvedToken, Null},
     endpoints |-> {ApiX},
     options |-> {NoOptions},
     inits |-> {NoInit, CallerInit, FullInit},
     ops |-> {"post"},
     bodies |-> {ObjectBody},
     responses |-> Responses({200}, {AppJson}, {<<JsonData, TextData>>}, {<<>>}),
     windows |-> {FALSE},
     ambients |-> {AmbientCookie},
     domains |-> {Undefined, AppDomain}]

InitHeaders == InitWith(HeadersUse)
NextHeaders == NextWith(HeadersUse)
SpecHeaders == InitHeaders /\ [][NextHeaders]_vars

\* the inputs of the validation messages: no field, the empty field, fields
\* that start with a lower-case letter, a capital, a digit; no number, 0 and
\* numbers of one and two digits
MaxMin == 12
MessageFields ==
    {Undefined, <<>>, <<"n","a","a","m">>, <<"N","a","a","m">>, <<"w","a","c","h","t","w","o","o","r","d">>, <<"W","a","c","h","t","w","o","o","r","d">>, <<"e","-","m","a","i","l">>, <<"8","x">>}
MessageNumbers == {NoNumber} \cup 0..MaxMin

InitMessages == InitWith(SequentialUse)
NextMessages ==
    \/ \E field \in MessageFields : required(field)
    \/ \E field \in MessageFields, min \in MessageNumbers : min_string(field, min)
SpecMessages == InitMessages /\ [][NextMessages]_vars

(***************************************************************************)
(* Properties                                                              *)
(***************************************************************************)

\* fetch has been called for this call
HasDispatched(call) == call.transport # "none"

\* "Bearer t1", "Bearer r1" and "a=1; b=2"
BearerStatic == <<"B","e","a","r","e","r"," ","t","1">>
BearerResolved == <<"B","e","a","r","e","r"," ","r","1">>
CookiesAB == <<"a","=","1",";"," ","b","=","2">>

\* C1: every request dispatched by a call that found bearerToken set carries the
\* Authorization header "Bearer <bearerToken>", whether or not a token resolver
\* is installed and whatever Authorization header the caller's init carried.
C1_BearerTokenWins ==
    \A p \in Procs :
        LET call == calls[p]
        IN (HasDispatched(call) /\ ~Falsy(call.atCall.bearerToken)) =>
              /\ call.config.headers["authorization"] = Bearer(call.atCall.bearerToken)
              /\ call.atCall.bearerToken = StaticToken =>
                    call.config.headers["authorization"] = BearerStatic

C1_Witness ==
    \E p \in Procs :
        /\ HasDispatched(calls[p])
        /\ calls[p].atCall.bearerToken = StaticToken
        /\ calls[p].atCall.tokenResolver = ResolverFn
        /\ calls[p].init.headers["authorization"] = BasicAuth
        /\ calls[p].config.headers["authorization"] = BearerStatic

\* the call found bearerToken unset and a token resolver installed
ResolverCase(call) ==
    /\ call.pc # "idle"
    /\ Falsy(call.atCall.bearerToken)
    /\ call.atCall.tokenResolver = ResolverFn

\* C2: for a call that found bearerToken unset and a resolver installed, the
\* dispatched request carries "Bearer X" when the resolver produced a non-empty
\* token X; when the resolver produced null, threw or rejected, the client sets no
\* Authorization header (the header is what the caller's init carried, absent if
\* it carried none), the request is dispatched all the same, and the call does
\* not settle with the resolver's error.
C2_ResolverToken ==
    \A p \in Procs :
        LET call == calls[p]
            sent == call.config.headers["authorization"]
        IN ResolverCase(call) =>
              /\ call.resolved # Absent =>
                    /\ HasDispatched(call)
                    /\ call.error # ResolverFailed
              /\ HasDispatched(call) =>
                    /\ call.resolved # Absent
                    /\ call.resolved = ResolvedToken => sent = BearerResolved
                    /\ call.resolved \notin {Null, ResolverFailed, <<>>} =>
                          sent = Bearer(call.resolved)
                    /\ call.resolved \in {Null, ResolverFailed} =>
                          sent = call.init.headers["authorization"]

C2_Witness ==
    \E p \in Procs :
        /\ ResolverCase(calls[p])
        /\ calls[p].resolved = ResolverFailed
        /\ calls[p].pc = "resolved"
        /\ calls[p].op = "get"
        /\ calls[p].config.headers["authorization"] = Absent

\* the value of the XSRF-TOKEN entry of a cookie string: what follows "XSRF-TOKEN="
\* in the first "; "-separated entry of that name; Absent when there is none
XsrfEntryValue(cookieString) ==
    LET rows == Split(cookieString, <<";", " ">>)
        hits == {i \in 1..Len(rows) : StartsWith(rows[i], XsrfPrefix)}
    IN IF hits = {} THEN Absent
       ELSE LET row == rows[CHOOSE i \in hits : \A j \in hits : i <= j]
            IN SubSeq(row, Len(XsrfPrefix) + 1, Len(row))

\* the X-XSRF-TOKEN header the precedence of C3 asks for
XsrfExpected(call) ==
    LET attached == call.config.headers["cookie"]
    IN IF ~Falsy(call.atCall.csrfToken) THEN call.atCall.csrfToken
       ELSE IF attached # Absent /\ XsrfEntryValue(attached) # Absent
       THEN DecodeURIComponent(XsrfEntryValue(attached))
       ELSE call.init.headers["x-xsrf-token"]

\* C3: the X-XSRF-TOKEN header of a dispatched request is the explicit csrfToken if
\* set; otherwise the percent-decoded value of the XSRF-TOKEN entry of the cookie
\* string attached to the request, if it has one; otherwise the client sets none.
C3_CsrfPrecedence ==
    \A p \in Procs :
        HasDispatched(calls[p]) =>
            calls[p].config.headers["x-xsrf-token"] = XsrfExpected(calls[p])

\* C4: without an ambient cookie store, once a call of request has returned
\* cookies is null (a mutating verb may then capture Set-Cookie values), and a
\* string written by withCookies is attached to the first request dispatched
\* after it and to no later request.
C4_CookiesUsedOnce ==
    ~window =>
        /\ \A p \in Procs :
              LET call == calls[p]
              IN /\ (call.pc \in {"capture", "rejected"}
                     \/ (call.pc = "resolved" /\ call.response.setCookie = <<>>)) =>
                        cookies = Null
                 /\ (HasDispatched(call) /\ call.due.by = "setter") =>
                        call.config.headers["cookie"] = call.due.value
        /\ stored.by = "setter" => stored.attached <= 1

\* C5: when a mutating request whose response carries Set-Cookie headers has
\* returned, cookies holds their values joined with "; " in response order ("a=1"
\* then "b=2" give "a=1; b=2"), and the next dispatched request carries exactly
\* that string as its cookie header unless withCookies was called in between.
C5_SetCookieCaptured ==
    \A p \in Procs :
        LET call == calls[p]
        IN /\ (call.pc = "resolved" /\ call.op \in MutatingOps
                  /\ call.response.setCookie # <<>>) =>
                    /\ cookies = SetCookieJoined(call.response)
                    /\ call.response.setCookie = <<SetCookieA, SetCookieB>> =>
                          cookies = CookiesAB
           /\ (HasDispatched(call) /\ call.due.by = "capture") =>
                    call.config.headers["cookie"] = call.due.value

C5_Witness ==
    \E p \in Procs :
        /\ HasDispatched(calls[p])
        /\ calls[p].due = [by |-> "capture", value |-> CookiesAB]
        /\ calls[p].config.headers["cookie"] = CookiesAB

\* C7: new Laravel(url) with an absent or empty url throws and yields no instance;
\* with a non-empty url it does not throw, keeps the url as baseUrl, and leaves
\* cookies, csrfToken and bearerToken null and the token resolver unset.
C7_Construction ==
    /\ [](/\ ctorArg \in {Undefined, <<>>} => (ctorThrew /\ ~constructed)
          /\ ctorArg \notin {Absent, Undefined, <<>>} =>
                (~ctorThrew /\ constructed /\ baseUrl = ctorArg))
    /\ [][(~constructed /\ constructed') =>
             /\ cookies' = Null
             /\ csrfToken' = Null
             /\ bearerToken' = Null
             /\ tokenResolver' = Undefined]_vars

C7_Witness ==
    /\ constructed
    /\ ~ctorThrew
    /\ ctorArg = BaseUrl
    /\ baseUrl = BaseUrl
    /\ cookies = Null /\ csrfToken = Null /\ bearerToken = Null
    /\ tokenResolver = Undefined

\* C8: when the transport call rejects, request and the verb helper built on it
\* reject with that same error and return no envelope.
C8_TransportFailurePropagates ==
    \A p \in Procs :
        calls[p].transport = "failed" =>
            /\ calls[p].pc = "rejected"
            /\ calls[p].error = FetchFailed
            /\ calls[p].envelope = NoEnvelope

C8_Witness ==
    \E p \in Procs :
        /\ calls[p].op = "post"
        /\ calls[p].transport = "failed"
        /\ calls[p].pc = "rejected"
        /\ calls[p].error = FetchFailed

\* request has built the envelope of this call
HasEnvelope(call) == call.pc \in {"capture", "resolved"}

\* C6: for every response of the transport, whatever its status s, the call does
\* not reject, and the envelope it resolves with has status s and a success flag
\* that is true exactly when 200 <= s < 300; 401, 403 and 422 give success false.
C6_StatusAndSuccess ==
    \A p \in Procs :
        LET call == calls[p]
            s == call.response.status
        IN call.transport = "responded" =>
              /\ call.pc \in {"body", "capture", "resolved"}
              /\ call.error = Absent
              /\ HasEnvelope(call) =>
                    /\ call.envelope.status = s
                    /\ call.envelope.success = (200 <= s /\ s < 300)
                    /\ s \in {401, 403, 422} => ~call.envelope.success

C6_Witness ==
    \E p \in Procs :
        /\ calls[p].pc = "resolved"
        /\ calls[p].response.status = 422
        /\ calls[p].envelope.status = 422
        /\ ~calls[p].envelope.success

\* the body reader that createLaravelResponse chooses for the response throws
BodyReadFails(response) ==
    IF response.contentType # Null /\ Includes(response.contentType, AppJson)
    THEN response.json = Throws
    ELSE response.text = Throws

\* C9: when the body reader throws, the call still resolves, with an envelope whose
\* data is null and whose status, statusText, headers, config, raw response and
\* success flag are taken from the response and the request as for a readable body.
C9_UnreadableBody ==
    \A p \in Procs :
        LET call == calls[p]
            r == call.response
        IN (call.transport = "responded" /\ BodyReadFails(r)) =>
              /\ call.pc \in {"body", "capture", "resolved"}
              /\ HasEnvelope(call) =>
                    /\ call.envelope.data = Null
                    /\ call.envelope.status = r.status
                    /\ call.envelope.statusText = r.statusText
                    /\ call.envelope.headers = headersToRecord(r)
                    /\ call.envelope.headers["content-type"] =
                          (IF r.contentType = Null THEN Absent ELSE r.contentType)
                    /\ call.envelope.config = call.config
                    /\ call.envelope.request = r
                    /\ call.envelope.success = (200 <= r.status /\ r.status < 300)

C9_Witness ==
    \E p \in Procs :
        /\ calls[p].pc = "resolved"
        /\ calls[p].response.contentType = AppJsonCharset
        /\ calls[p].response.json = Throws
        /\ calls[p].response.status = 200
        /\ calls[p].envelope.data = Null
        /\ calls[p].envelope.success

\* the text {"x":1}
JsonOfObjectBody == <<"{", DoubleQuote, "x", DoubleQuote, ":", "1", "}">>

\* C10: post, put, patch and delete send a plain object as its JSON text with
\* Content-Type application/json ({x: 1} as {"x":1}), a string as it is with
\* Content-Type text/plain, a FormData, a Blob and an ArrayBuffer as they are
\* with no Content-Type, and for an absent or null body no body and no
\* Content-Type.
C10_BodyTypes ==
    \A p \in Procs :
        LET call == calls[p]
            given == call.body
            sent == call.config.body
            contentType == call.config.headers["content-type"]
        IN (HasDispatched(call) /\ call.op \in MutatingOps) =>
              /\ given.kind = "object" =>
                    /\ sent = StringBody(JSONStringify(given.entries))
                    /\ contentType = AppJson
              /\ given = ObjectBody => sent.text = JsonOfObjectBody
              /\ given.kind = "string" => (sent = given /\ contentType = TextPlain)
              /\ given.kind \in {"FormData", "Blob", "ArrayBuffer"} =>
                    (sent = given /\ contentType = Absent)
              /\ given.kind \in {"undefined", "null"} =>
                    (sent = NullBody /\ contentType = Absent)

C10_Witness ==
    \E p \in Procs :
        /\ HasDispatched(calls[p])
        /\ calls[p].op = "put"
        /\ calls[p].body = ObjectBody
        /\ calls[p].config.body = StringBody(JsonOfObjectBody)
        /\ calls[p].config.headers["content-type"] = AppJson

(***************************************************************************)
(* Properties of the URLs, the endpoints and the setters                   *)
(***************************************************************************)

\* "https://h/api/users" and "https://h/api/users?search=keyword&page=1"
UsersUrl == BaseUrl \o <<"a","p","i","/","u","s","e","r","s">>
UsersSearchUrl == UsersUrl \o <<"?">> \o RawQuery

\* name=value of each property in turn, joined with "&"
PlainQuery(properties) ==
    Join([i \in 1..Len(properties) |->
             properties[i].key \o <<"=">> \o StringOf(properties[i])], <<"&">>)

\* C11: get with params given as a non-empty string s requests the URL of the
\* endpoint resolved against baseUrl followed by "?" and s as it is; with params
\* given as an object of plain names and values it requests that URL followed by
\* "?" and name=String(value) of each key once, in order, joined with "&".  With
\* base "https://h/" and endpoint "/api/users", the string "search=keyword&page=1"
\* and the object {search: "keyword", page: 1} both give
\* "https://h/api/users?search=keyword&page=1".
C11_GetParams ==
    \A p \in Procs :
        LET call == calls[p]
            resolved == URLToString(NewURL(call.endpoint, baseUrl))
        IN (HasDispatched(call) /\ call.via = "get" /\ QueryOf(call.endpoint) = Null) =>
              /\ (call.params.kind = "string" /\ call.params.text # <<>>) =>
                    call.path = resolved \o <<"?">> \o call.params.text
              /\ (call.params.kind = "object" /\ call.params.entries # <<>>) =>
                    call.path = resolved \o <<"?">> \o PlainQuery(call.params.entries)
              /\ (baseUrl = BaseUrl /\ call.endpoint = ApiUsers
                    /\ call.params \in {SearchParams, StringBody(RawQuery)}) =>
                    call.path = UsersSearchUrl

\* the endpoint table: the method of each convenience method and, for the base
\* "https://h/", the URL it requests; of verifyEmail, for the arguments "7", "h1"
\* and {expires: "9", signature: "sig"}
EndpointTable ==
    [csrf |-> [method |-> "GET", url |->
        <<"h","t","t","p","s",":","/","/","h","/","s","a","n","c","t","u","m","/","c","s","r","f","-","c","o","o","k","i","e">>],
     login |-> [method |-> "POST", url |->
        <<"h","t","t","p","s",":","/","/","h","/","a","p","i","/","l","o","g","i","n">>],
     register |-> [method |-> "POST", url |->
        <<"h","t","t","p","s",":","/","/","h","/","a","p","i","/","r","e","g","i","s","t","e","r">>],
     sendVerificationNotification |-> [method |-> "POST", url |->
        <<"h","t","t","p","s",":","/","/","h","/","a","p","i","/","e","m","a","i","l","/","v","e","r","i","f","i","c","a","t","i","o","n","-","n","o","t","i","f","i","c","a","t","i","o","n">>],
     forgotPassword |-> [method |-> "POST", url |->
        <<"h","t","t","p","s",":","/","/","h","/","a","p","i","/","f","o","r","g","o","t","-","p","a","s","s","w","o","r","d">>],
     resetPassword |-> [method |-> "POST", url |->
        <<"h","t","t","p","s",":","/","/","h","/","a","p","i","/","r","e","s","e","t","-","p","a","s","s","w","o","r","d">>],
     updatePassword |-> [method |-> "PUT", url |->
        <<"h","t","t","p","s",":","/","/","h","/","a","p","i","/","u","s","e","r","/","u","p","d","a","t","e","-","p","a","s","s","w","o","r","d">>],
     updateAccount |-> [method |-> "PUT", url |->
        <<"h","t","t","p","s",":","/","/","h","/","a","p","i","/","u","s","e","r">>],
     verifyEmail |-> [method |-> "GET", url |->
        <<"h","t","t","p","s",":","/","/","h","/","a","p","i","/","v","e","r","i","f","y","-","e","m","a","i","l","/","7","/","h","1","?","e","x","p","i","r","e","s","=","9","&","s","i","g","n","a","t","u","r","e","=","s","i","g">>]]
ConvenienceMethods == DOMAIN EndpointTable

\* the text {"email":"a@b.com","password":"pw"}
LoginJson == <<"{",DoubleQuote,"e","m","a","i","l",DoubleQuote,":",DoubleQuote,"a","@","b",".","c","o","m",DoubleQuote,",",DoubleQuote,"p","a","s","s","w","o","r","d",DoubleQuote,":",DoubleQuote,"p","w",DoubleQuote,"}">>

\* the call of a convenience method has gone past the token resolver
PastResolver(call) ==
    /\ call.via \in ConvenienceMethods
    /\ call.pc \notin {"idle", "resolver"}
    /\ call.error # TypeErrorInvalidURL

\* C12: a call of a convenience method, given a base URL that is one, calls fetch
\* exactly once, with the method of the endpoint table and, for the base
\* "https://h/", its URL.  login(e, p) sends the JSON text of {email: e, password:
\* p}; register, resetPassword, updatePassword and updateAccount send the JSON
\* text of the object given; csrf and verifyEmail send no body, and verifyEmail
\* requests /api/verify-email/u/h with expires and signature as its query.
C12_ConvenienceEndpoints ==
    \A p \in Procs :
        LET call == calls[p]
            row == EndpointTable[call.via]
        IN /\ call.via \in ConvenienceMethods => call.fetches <= 1
           /\ PastResolver(call) =>
                 /\ call.fetches = 1
                 /\ call.config.method = row.method
                 /\ baseUrl = BaseUrl => call.path = row.url
                 /\ row.method = "GET" => call.config.body = UndefinedBody
                 /\ row.method # "GET" =>
                       /\ call.config.body = StringBody(JSONStringify(call.body.entries))
                       /\ call.config.headers["content-type"] = AppJson
                 /\ call.via = "login" => call.config.body.text = LoginJson
                 /\ call.via \in {"register", "resetPassword", "updatePassword",
                                  "updateAccount"} => call.body = AccountData

C12_Witness ==
    \E p \in Procs :
        /\ calls[p].via = "login"
        /\ calls[p].pc = "resolved"
        /\ calls[p].fetches = 1
        /\ calls[p].path = EndpointTable.login.url
        /\ calls[p].config.method = "POST"
        /\ calls[p].config.body = StringBody(LoginJson)

\* C13: once withToken(t), a request and withToken(null) have been called in
\* that order, bearerToken is null, and a request made then does not carry
\* "Bearer t": with a resolver installed that produces a non-empty X it carries
\* "Bearer X"; with no resolver, or one that produces nothing, the client sets no
\* Authorization header (the header is what the caller's init carried).
C13_ClearedToken ==
    /\ (constructed /\ tokenUse.phase \in {"unset", "cleared"}) => bearerToken = Null
    /\ \A p \in Procs :
          LET call == calls[p]
              use == call.atCall.tokenUse
              sent == call.config.headers["authorization"]
              nothing == call.resolved \in {Absent, Null, <<>>, ResolverFailed}
          IN (HasDispatched(call) /\ use.phase = "cleared") =>
                /\ call.atCall.bearerToken = Null
                /\ sent # Bearer(use.token)
                /\ (call.atCall.tokenResolver = ResolverFn /\ ~nothing) =>
                      sent = Bearer(call.resolved)
                /\ (call.atCall.tokenResolver = Undefined \/ nothing) =>
                      sent = call.init.headers["authorization"]

C13_Witness ==
    \E p \in Procs :
        /\ HasDispatched(calls[p])
        /\ calls[p].atCall.tokenUse = [phase |-> "cleared", token |-> StaticToken]
        /\ calls[p].atCall.tokenResolver = ResolverFn
        /\ calls[p].resolved = ResolvedToken
        /\ calls[p].config.headers["authorization"] = BearerResolved

\* a request carries the cookie string withCookies wrote last before it
AttachesLastWritten ==
    \A p \in Procs :
        (HasDispatched(calls[p]) /\ calls[p].due.by = "setter") =>
            /\ calls[p].atCall.cookies = calls[p].due.value
            /\ calls[p].config.headers["cookie"] = calls[p].due.value

\* C14 as claimed: withCookies(value) leaves cookies equal to the string given, or
\* null when the argument is null or absent, whatever cookies held before; and a
\* request carries the string written last before it.
C14_SetCookies ==
    /\ returned.method = "withCookies" =>
          cookies = (IF returned.arg \in {Null, Undefined} THEN Null ELSE returned.arg)
    /\ AttachesLastWritten

\* C14 amended: withCookies(value) leaves cookies equal to the string given if it
\* is not empty, or null when the argument is null, absent or the empty string,
\* whatever cookies held before; and a request carries the string written last
\* before it.
C14_SetCookiesOrEmpty ==
    /\ returned.method = "withCookies" =>
          /\ returned.value = This
          /\ cookies = (IF returned.arg \in {Null, Undefined, <<>>} THEN Null
                        ELSE returned.arg)
    /\ AttachesLastWritten

C14_Witness ==
    /\ returned.method = "withCookies"
    /\ returned.before = CookiesAB
    /\ returned.arg = <<>>
    /\ cookies = Null

\* a step in which the caller calls the synchronous method and no call of
\* request moves
CallOf(method) == constructed /\ calls' = calls /\ returned'.method = method

\* C15: withCookies, withCSRFToken, withToken and setTokenResolver each return the
\* instance they were called on and change no field but their own: baseUrl and
\* the three other fields are as they were.
C15_SettersFrame ==
    [][/\ returned'.method \in {"withCookies", "withCSRFToken", "withToken",
                                "setTokenResolver"} => returned'.value = This
       /\ CallOf("withCookies") =>
             UNCHANGED <<baseUrl, csrfToken, bearerToken, tokenResolver>>
       /\ CallOf("withCSRFToken") =>
             /\ csrfToken' = returned'.arg
             /\ UNCHANGED <<baseUrl, cookies, bearerToken, tokenResolver>>
       /\ CallOf("withToken") =>
             UNCHANGED <<baseUrl, cookies, csrfToken, tokenResolver>>
       /\ CallOf("setTokenResolver") =>
             /\ tokenResolver' = returned'.arg
             /\ UNCHANGED <<baseUrl, cookies, csrfToken, bearerToken>>]_vars

C15_Witness ==
    /\ returned = Returned("withCSRFToken", CsrfValue, Null, This)
    /\ baseUrl = BaseUrl
    /\ csrfToken = CsrfValue
    /\ cookies = SessionCookie
    /\ bearerToken = StaticToken
    /\ tokenResolver = ResolverFn

\* absolute URLs by the rules of URL resolution: with base "https://h/", no
\* argument and "" give "https://h/", "/api/x" gives "https://h/api/x", "x" gives
\* "https://h/x", "/u?q=1" gives "https://h/u?q=1" and null gives "https://h/null";
\* with base "https://h/api/v1", no argument and "" give the base, "/api/x" and
\* "x" give "https://h/api/x", "/u?q=1" gives "https://h/u?q=1" and null gives
\* "https://h/api/null"
ResolveExamples ==
    {[base |-> BaseUrl, path |-> Undefined,
      url |-> <<"h","t","t","p","s",":","/","/","h","/">>],
     [base |-> BaseUrl, path |-> <<>>,
      url |-> <<"h","t","t","p","s",":","/","/","h","/">>],
     [base |-> BaseUrl, path |-> ApiX,
      url |-> <<"h","t","t","p","s",":","/","/","h","/","a","p","i","/","x">>],
     [base |-> BaseUrl, path |-> RelativeEndpoint,
      url |-> <<"h","t","t","p","s",":","/","/","h","/","x">>],
     [base |-> BaseUrl, path |-> EndpointWithQuery,
      url |-> <<"h","t","t","p","s",":","/","/","h","/","u","?","q","=","1">>],
     [base |-> BaseUrl, path |-> Null,
      url |-> <<"h","t","t","p","s",":","/","/","h","/","n","u","l","l">>],
     [base |-> BaseV1, path |-> Undefined,
      url |-> <<"h","t","t","p","s",":","/","/","h","/","a","p","i","/","v","1">>],
     [base |-> BaseV1, path |-> ApiX,
      url |-> <<"h","t","t","p","s",":","/","/","h","/","a","p","i","/","x">>],
     [base |-> BaseV1, path |-> RelativeEndpoint,
      url |-> <<"h","t","t","p","s",":","/","/","h","/","a","p","i","/","x">>],
     [base |-> BaseV1, path |-> <<>>,
      url |-> <<"h","t","t","p","s",":","/","/","h","/","a","p","i","/","v","1">>],
     [base |-> BaseV1, path |-> Null,
      url |-> <<"h","t","t","p","s",":","/","/","h","/","a","p","i","/","n","u","l","l">>],
     [base |-> BaseV1, path |-> EndpointWithQuery,
      url |-> <<"h","t","t","p","s",":","/","/","h","/","u","?","q","=","1">>]}

\* C16: getUri(path) returns the absolute URL of path resolved against baseUrl
\* and changes no field: with base "https://h/", getUri("/api/x") is
\* "https://h/api/x" and getUri() is "https://h/".
C16_GetUri ==
    /\ [](returned.method = "getUri" =>
             /\ baseUrl \in {BaseUrl, BaseV1} =>
                   \E e \in ResolveExamples :
                       /\ e.base = baseUrl
                       /\ e.path = returned.arg
                       /\ e.url = returned.value
             /\ (baseUrl = BaseUrl /\ returned.arg = ApiX) =>
                   returned.value = BaseUrl \o <<"a", "p", "i", "/", "x">>
             /\ (baseUrl = BaseUrl /\ returned.arg = Undefined) =>
                   returned.value = BaseUrl)
    /\ [][CallOf("getUri") => UNCHANGED <<constructed, fields, stored>>]_vars

C16_Witness ==
    /\ baseUrl = BaseUrl
    /\ cookies = SessionCookie
    /\ returned = Returned("getUri", ApiX, Absent, BaseUrl \o <<"a", "p", "i", "/", "x">>)

\* C17: after a request that began with a cookie string stored and whose
\* transport call failed, cookies is null; and a request that begins with no
\* string written since the last request carries no cookie of the client's (the
\* string stored before the failed request is not sent again).
C17_ClearedOnFailure ==
    \A p \in Procs :
        LET call == calls[p]
        IN /\ (call.transport = "failed" /\ ~Falsy(call.atCall.cookies)) =>
                 cookies = Null
           /\ (HasDispatched(call) /\ ~window /\ call.due = NothingDue) =>
                 call.config.headers["cookie"] = call.init.headers["cookie"]

(***************************************************************************)
(* Properties of overlapping use                                           *)
(***************************************************************************)

\* the call of p awaits fetch with the stored cookie string in its headers
InFlightWithStored(p) ==
    /\ calls[p].transport = "pending"
    /\ stored.by # "none"
    /\ calls[p].config.headers["cookie"] = stored.value

\* the step in which the fetch of p resolves
FetchResolvesFor(p) ==
    calls[p].transport = "pending" /\ calls'[p].transport = "responded"

\* C18: with two requests in progress on one instance a stored cookie string
\* is not attached exactly once.  Every request that starts while cookies holds
\* a string attaches that string, whether or not a request still in flight has
\* attached it already, so that one stored string can travel with both
\* requests; and the reset after any request's fetch sets cookies to null
\* whatever it holds, so that a string stored (by withCookies or by the
\* Set-Cookie capture) while that request awaited fetch is cleared before any
\* request has attached it.
C18_OverlapHazards ==
    /\ [](\A p \in Procs :
            (HasDispatched(calls[p]) /\ ~Falsy(calls[p].atCall.cookies)) =>
                calls[p].config.headers["cookie"] = calls[p].atCall.cookies)
    /\ [][\A p \in Procs :
            FetchResolvesFor(p) =>
                /\ cookies' = Null
                /\ (stored.by # "none" /\ stored.attached = 0 /\ cookies = stored.value)
                      => (dropped' /\ stored'.attached = 0)]_vars

\* both interleavings in one behaviour: a string stored while a request
\* awaited fetch was cleared unattached, and now the two requests await fetch
\* with one stored string attached to both
C18_Witness ==
    /\ dropped
    /\ stored.attached = 2
    /\ InFlightWithStored(1)
    /\ InFlightWithStored(2)

\* the header a request carries for a field it found holding value: none
\* when the field was unset
HeaderFrom(value) == IF Falsy(value) THEN Absent ELSE value

\* the call of p is suspended, at the token resolver or at fetch, before and
\* after the step
StaysSuspended(p) ==
    /\ calls[p].pc \in {"resolver", "fetch"}
    /\ calls'[p].pc = calls[p].pc

\* C19: the cookie, X-XSRF-TOKEN and static bearer headers of a dispatched
\* request are those of the values cookies, csrfToken and bearerToken held when
\* the call started (a call that found no bearer token carries the resolver's
\* token or none, never a token set later); and no step taken while the call
\* is suspended at the token resolver or at fetch, a setter among them,
\* changes the headers built so far or the config given to fetch.
C19_HeadersFromCallStart ==
    /\ [](\A p \in Procs :
            LET call == calls[p]
                found == call.atCall
                sent == call.config.headers
            IN HasDispatched(call) =>
                  /\ sent["cookie"] = HeaderFrom(found.cookies)
                  /\ sent["x-xsrf-token"] = HeaderFrom(found.csrfToken)
                  /\ sent["authorization"] =
                        IF found.bearerToken = StaticToken THEN BearerStatic
                        ELSE IF found.tokenResolver = ResolverFn /\ call.resolved = ResolvedToken
                             THEN BearerResolved
                        ELSE Absent)
    /\ [][\A p \in Procs :
            StaysSuspended(p) =>
                /\ calls'[p].headers = calls[p].headers
                /\ calls'[p].config = calls[p].config]_vars

\* a request found all three fields unset, was suspended at the token resolver
\* and now awaits fetch; all three setters have been called since it started,
\* and it carries none of their values
C19_Witness ==
    /\ calls[1].pc = "fetch"
    /\ calls[1].resolved = ResolvedToken
    /\ calls[1].atCall.cookies = Null
    /\ calls[1].atCall.csrfToken = Null
    /\ calls[1].atCall.bearerToken = Null
    /\ cookies = SessionCookie
    /\ csrfToken = CsrfValue
    /\ bearerToken = StaticToken
    /\ calls[1].config.headers["cookie"] = Absent
    /\ calls[1].config.headers["x-xsrf-token"] = Absent
    /\ calls[1].config.headers["authorization"] = BearerResolved

(***************************************************************************)
(* Properties of the document cookie store                                 *)
(***************************************************************************)

\* the call found a window and cookies null or undefined, and took
\* document.cookie in its place
Adopted(call) ==
    /\ window
    /\ call.atCall # NoSnapshot
    /\ call.atCall.cookies \in {Null, Undefined}

\* C20: in a window, a request that finds cookies null adopts document.cookie
\* and attaches it; once the call has returned, with a response or with the
\* transport's error, cookies no longer holds the adopted string; and a
\* request that starts with no cookie string written since the last request
\* carries document.cookie as it is when that request starts.
C20_AdoptedForThisCall ==
    \A p \in Procs :
        LET call == calls[p]
            ambient == call.atCall.documentCookie
        IN /\ (Adopted(call) /\ HasDispatched(call)) =>
                 call.config.headers["cookie"] = HeaderFrom(ambient)
           /\ (Adopted(call) /\ call.transport \in {"responded", "failed"}
                             /\ call.pc \in {"resolved", "rejected"}) =>
                 (ambient # <<>> => cookies # ambient)
           /\ (window /\ HasDispatched(call) /\ call.due = NothingDue) =>
                 call.config.headers["cookie"] = HeaderFrom(ambient)

(***************************************************************************)
(* Properties across requests                                              *)
(***************************************************************************)

\* the step in which p starts a call
Starts(p) == calls[p].pc = "idle" /\ calls'[p].pc # "idle"

\* the step is withCookies(value) with a value it stores
StoresBySetter ==
    /\ returned' = Returned("withCookies", cookies', cookies, This)
    /\ calls' = calls

\* the step is the Set-Cookie capture of a call of post, put, patch or delete
StoresByCapture ==
    \E p \in Procs :
        /\ calls[p].pc = "capture"
        /\ calls[p].op \in MutatingOps
        /\ calls[p].response.setCookie # <<>>
        /\ cookies' = SetCookieJoined(calls[p].response)

\* C21: with no window, cookies comes to hold a string only by withCookies or
\* by the Set-Cookie capture of a mutating request.  When a get (csrf() is
\* one) has returned with a response that carries Set-Cookie headers, cookies
\* is null; and a request that starts while cookies is null carries no cookie
\* header of the client's, so the request after such a get carries none of
\* the cookies of its response.
C21_GetCapturesNothing ==
    /\ [](\A p \in Procs :
            (~window /\ calls[p].op = "get" /\ calls[p].pc = "resolved") =>
                cookies = Null)
    /\ [][/\ (~window /\ cookies' # cookies /\ ~Falsy(cookies')) =>
                (StoresBySetter \/ StoresByCapture)
          /\ \A p \in Procs :
                (~window /\ Starts(p) /\ cookies = Null /\ HasDispatched(calls'[p])) =>
                    calls'[p].config.headers["cookie"] = calls'[p].init.headers["cookie"]
         ]_vars

\* csrf() has returned with a response that set a cookie, and cookies is null
C21_Witness ==
    /\ ~window
    /\ calls[1].via = "csrf"
    /\ calls[1].op = "get"
    /\ calls[1].pc = "resolved"
    /\ calls[1].response.setCookie = <<SetCookieA>>
    /\ calls[1].atCall.cookies = SessionCookie
    /\ cookies = Null

\* C22: the first request dispatched after a mutating request has captured a
\* Set-Cookie list with a cookie XSRF-TOKEN=v, with no withCookies in between,
\* carries X-XSRF-TOKEN equal to the percent-decoded v when csrfToken is not
\* set; and every dispatched request that found csrfToken set carries that
\* token as X-XSRF-TOKEN.
C22_CsrfContinuity ==
    \A p \in Procs :
        LET call == calls[p]
            sent == call.config.headers["x-xsrf-token"]
        IN HasDispatched(call) =>
              /\ (/\ call.due.by = "capture"
                  /\ XsrfEntryValue(call.due.value) # Absent
                  /\ Falsy(call.atCall.csrfToken)) =>
                    sent = DecodeURIComponent(XsrfEntryValue(call.due.value))
              /\ ~Falsy(call.atCall.csrfToken) => sent = call.atCall.csrfToken

\* C23: the token resolver is called only by a request that finds bearerToken
\* unset.  A request that found bearerToken set, or no resolver installed,
\* has called it zero times; a request that found bearerToken unset and a
\* resolver installed has called it exactly once when it is dispatched, the
\* resolver has settled or thrown by then, and while the request still awaits
\* the resolver it has not called fetch.
C23_ResolverInvokedOnce ==
    \A p \in Procs :
        LET call == calls[p]
            found == call.atCall
        IN /\ (call.pc # "idle" /\ ~Falsy(found.bearerToken)) => call.invoked = 0
           /\ (call.pc # "idle" /\ found.tokenResolver # ResolverFn) => call.invoked = 0
           /\ (HasDispatched(call) /\ ResolverCase(call)) =>
                 /\ call.invoked = 1
                 /\ call.resolved # Absent
                 /\ call.fetches = 1
           /\ call.pc = "resolver" =>
                 /\ ResolverCase(call)
                 /\ call.invoked = 1
                 /\ call.fetches = 0

\* one request has returned that found a bearer token beside the resolver and
\* never called the resolver; the token has been cleared since, and the request
\* now dispatched has called the resolver once, which produced no token
C23_Witness ==
    /\ tokenUse.phase = "cleared"
    /\ HasDispatched(calls[1])
    /\ ResolverCase(calls[1])
    /\ calls[1].invoked = 1
    /\ calls[1].resolved = Null
    /\ calls[1].fetches = 1

(***************************************************************************)
(* Properties of the forced headers and of the fields the dispatch leaves  *)
(***************************************************************************)

\* the headers the client forces, and those it writes when it has a value
ForcedHeaders == {"accept", "origin"}
ClientHeaders == {"cookie", "x-xsrf-token", "authorization"}

\* Accept, Origin and credentials of a dispatched request
Forced(call) ==
    /\ call.config.headers["accept"] = AppJson
    /\ call.config.headers["origin"] =
          (IF publicDomain = Undefined THEN <<>> ELSE publicDomain)
    /\ call.config.credentials = "include"

\* the options other than credentials and headers go to fetch as received
OptionsForwarded(call) ==
    /\ call.config.method = call.init.method
    /\ call.config.body = call.init.body

DispatchStep == calls' # calls

\* C25: baseUrl is the non-empty value given to the constructor; no step of a
\* call, whether it succeeds or fails, changes baseUrl, csrfToken, bearerToken
\* or tokenResolver, and after construction each of the three changes only in
\* a call of its own setter; so every dispatched request carries the csrfToken
\* and the bearerToken the instance holds.
C25_DispatchWritesCookiesOnly ==
    /\ [](constructed => (baseUrl = ctorArg /\ ~Falsy(baseUrl)))
    /\ [](\A p \in Procs :
            HasDispatched(calls[p]) =>
                /\ ~Falsy(csrfToken) =>
                      calls[p].config.headers["x-xsrf-token"] = csrfToken
                /\ ~Falsy(bearerToken) =>
                      calls[p].config.headers["authorization"] = Bearer(bearerToken))
    /\ [][/\ DispatchStep =>
                UNCHANGED <<baseUrl, csrfToken, bearerToken, tokenResolver>>
          /\ constructed =>
                /\ baseUrl' = baseUrl
                /\ csrfToken' # csrfToken =>
                      returned' = Returned("withCSRFToken", csrfToken', csrfToken, This)
                /\ bearerToken' # bearerToken => returned'.method = "withToken"
                /\ tokenResolver' # tokenResolver =>
                      returned' = Returned("setTokenResolver", tokenResolver',
                                           tokenResolver, This)
         ]_vars

\* a request has failed, and the next request is dispatched with the same
\* csrfToken and bearerToken, set before the first of the two
C25_Witness ==
    /\ baseUrl = BaseUrl
    /\ csrfToken = CsrfValue
    /\ bearerToken = StaticToken
    /\ stored.attached = 2
    /\ calls[1].transport = "pending"
    /\ calls[1].config.headers["x-xsrf-token"] = CsrfValue
    /\ calls[1].config.headers["authorization"] = BearerStatic

(***************************************************************************)
(* Properties of the validation messages                                   *)
(***************************************************************************)

\* the field name as the message shows it
FieldShown ==
    {<<Undefined, <<"V","e","l","d">>>>, <<<<>>, <<"V","e","l","d">>>>, <<<<"n","a","a","m">>, <<"N","a","a","m">>>>, <<<<"N","a","a","m">>, <<"N","a","a","m">>>>,
     <<<<"w","a","c","h","t","w","o","o","r","d">>, <<"W","a","c","h","t","w","o","o","r","d">>>>,
     <<<<"W","a","c","h","t","w","o","o","r","d">>, <<"W","a","c","h","t","w","o","o","r","d">>>>,
     <<<<"e","-","m","a","i","l">>, <<"E","-","m","a","i","l">>>>, <<<<"8","x">>, <<"8","x">>>>}
Shown(field) == (CHOOSE row \in FieldShown : row[1] = field)[2]

\* C26: required(field) is the field name with its first letter capitalized
\* ("Veld" when no field is given) followed by " is verplicht."; and for every
\* field and every number n, 0 included, min.string(field, n) is that name
\* followed by " moet minimaal ", n and " tekens zijn.".
C26_Formatter ==
    /\ returned.method = "required" =>
          returned.value = Shown(returned.arg) \o <<" ","i","s"," ","v","e","r","p","l","i","c","h","t",".">>
    /\ (returned.method = "min.string" /\ returned.arg.min # NoNumber) =>
          returned.value = Shown(returned.arg.field) \o <<" ","m","o","e","t"," ","m","i","n","i","m","a","a","l"," ">>
                              \o NatToString(returned.arg.min) \o <<" ","t","e","k","e","n","s"," ","z","i","j","n",".">>

====
